---- MODULE Spec2Model ----
(***************************************************************************)
(* AdaptLearn Context Bus and worker agents.                               *)
(*                                                                         *)
(* The bus is the agent_messages table; the bus client is the five         *)
(* functions dispatchMessage, pollMessages, claimMessage, completeMessage  *)
(* and failMessage.  Every function performs one statement against the     *)
(* store, so each call is one atomic step here.                            *)
(*                                                                         *)
(*   SpecBus : the bus client called by arbitrary callers, in any order.   *)
(*   Spec    : clients dispatch, worker processes poll and run the         *)
(*             agents' handleMessage on what they polled.                  *)
(***************************************************************************)
EXTENDS Integers, Sequences, FiniteSets, TLC

VARIABLES msgs, now, lastOp, claimWins, wk, hist, entities, rq, auditLog, calc, chat

vars == <<msgs, now, lastOp, claimWins, wk, hist, entities, rq, auditLog, calc,
          chat>>

(***************************************************************************)
(* Bounds of the model.                                                    *)
(***************************************************************************)
MaxMsgs == 2
MaxClock == 1

(***************************************************************************)
(* Enumerations of types/index.ts.                                         *)
(***************************************************************************)
AgentName == {"master", "scout", "content_creator", "assessment", "learning", "chat_ui"}

MessageType == {"UserMessage", "JobDispatch", "SkillMapReady", "ContentReady",
                "AssessmentResult", "GapSignal", "SessionUpdate",
                "AssessmentTrigger", "ProgressUpdate"}

MessageStatus == {"pending", "processing", "done", "failed"}

Intent == {"research", "create_content", "assess", "learn", "unknown"}

Depth == {"beginner", "intermediate", "advanced"}

Outcome == {"PASS", "PARTIAL", "FAIL"}

Recommendation == {"advance", "needs_remediation", "needs_review"}

(***************************************************************************)
(* JSON values.  A field that is not present in an object is Absent; the   *)
(* error_message column of a row that has none is Null.  Uuids are the     *)
(* strings that have the uuid format, Scores the numbers in [0, 1], and    *)
(* GapLists the arrays of strings.                                         *)
(***************************************************************************)
Absent == "<absent>"
Null == "<null>"
Uuids == {"u1", "u2", "t1"} \cup {"s1", "s2", "s3", "s4", "s5"}
            \cup {"c1", "c2", "c3", "c4", "c5", "c6"}
            \cup {"a1", "a2", "a3", "a4", "a5"}
Scores == {"0", "0.5", "1"}
GapLists == {"[]", "[g1]"}

PayloadFields == {"intent", "topic", "topic_id", "user_id", "depth", "content_item_id",
                  "raw_input", "score", "outcome", "gaps", "recommendation",
                  "assessment_result_id", "ref_id", "cached"}

EmptyPayload == [f \in PayloadFields |-> Absent]

(* z.string().optional() *)
OptString(v) == TRUE

(* z.string().uuid() *)
IsUuid(v) == v \in Uuids

(* JobDispatchPayloadSchema.parse succeeds on p *)
JobDispatchPayloadSchema(p) ==
    /\ p.intent \in Intent
    /\ OptString(p.topic)
    /\ p.topic_id = Absent \/ IsUuid(p.topic_id)
    /\ IsUuid(p.user_id)
    /\ p.depth = Absent \/ p.depth \in Depth
    /\ p.content_item_id = Absent \/ IsUuid(p.content_item_id)
    /\ p.raw_input # Absent

(* GapSignalPayloadSchema.parse succeeds on p *)
GapSignalPayloadSchema(p) ==
    /\ p.topic # Absent /\ p.topic # ""
    /\ p.score \in Scores
    /\ p.outcome \in Outcome
    /\ p.gaps \in GapLists
    /\ p.recommendation \in Recommendation
    /\ IsUuid(p.user_id)
    /\ IsUuid(p.assessment_result_id)

(***************************************************************************)
(* dispatchMessage input.  pkind is the JSON type of the payload the       *)
(* caller passes ("object", or "scalar" for a string, number or null);     *)
(* status is Absent when the caller leaves it out; id is a key the insert  *)
(* schema does not know (NoId when the caller passes none).                *)
(***************************************************************************)
NoId == 0

\* C9 mutant of AgentMessageInsertSchema: to_agent is not checked
AgentMessageInsertSchemaAnyTo(input) ==
    /\ input.from_agent \in AgentName
    /\ input.message_type \in MessageType
    /\ input.pkind = "object"
    /\ input.status = Absent \/ input.status \in MessageStatus

(* AgentMessageInsertSchema.parse succeeds on input *)
AgentMessageInsertSchema(input) ==
    /\ input.from_agent \in AgentName
    /\ input.to_agent \in AgentName
    /\ input.message_type \in MessageType
    /\ input.pkind = "object"
    /\ input.status = Absent \/ input.status \in MessageStatus

(* the value AgentMessageInsertSchema.parse returns: unknown keys are    *)
(* stripped, status defaults to "pending"                                *)
Validated(input) ==
    [from_agent |-> input.from_agent,
     to_agent |-> input.to_agent,
     message_type |-> input.message_type,
     payload |-> input.payload,
     status |-> IF input.status = Absent THEN "pending" ELSE input.status]

(* INSERT INTO agent_messages ... RETURNING *: the table's defaults fill  *)
(* id (gen_random_uuid), error_message and created_at.  updated_at is     *)
(* written by every statement and read by none; it is not a field here.   *)
InsertRow(ms, input, t) ==
    LET v == Validated(input) IN
    Append(ms, [id |-> Len(ms) + 1,
                from_agent |-> v.from_agent, to_agent |-> v.to_agent,
                message_type |-> v.message_type, payload |-> v.payload,
                status |-> v.status, error_message |-> Null,
                created_at |-> t])

Ids(ms) == {ms[i].id : i \in 1..Len(ms)}

(* the rows of ms with the given id *)
RowsWithId(ms, id) == {i \in 1..Len(ms) : ms[i].id = id}

\* C1 mutant of claimMatches: the update is not conditional on status
claimMatchesAnyStatus(ms, id) == RowsWithId(ms, id)

(* rows matched by claimMessage's UPDATE: id = messageId AND status = pending *)
claimMatches(ms, id) == {i \in RowsWithId(ms, id) : ms[i].status = "pending"}

(* claimMessage's UPDATE applied to the store *)
claimMessage(ms, id) ==
    [i \in 1..Len(ms) |->
        IF i \in claimMatches(ms, id)
        THEN [ms[i] EXCEPT !.status = "processing"]
        ELSE ms[i]]

\* mutant of updateMessageStatus: the UPDATE has no WHERE id = messageId
updateMessageStatusAll(ms, id, status) ==
    [i \in 1..Len(ms) |-> [ms[i] EXCEPT !.status = status]]

(* updateMessageStatus: UPDATE ... SET status WHERE id = messageId *)
updateMessageStatus(ms, id, status) ==
    [i \in 1..Len(ms) |->
        IF i \in RowsWithId(ms, id)
        THEN [ms[i] EXCEPT !.status = status]
        ELSE ms[i]]

\* mutant of completeMessage: the status is left as it was
completeMessageKeeps(ms, id) == ms

\* mutant of completeMessage: the row of a finished message is removed
completeMessageDeletes(ms, id) == SelectSeq(ms, LAMBDA r : r.id # id)

(* completeMessage *)
completeMessage(ms, id) == updateMessageStatus(ms, id, "done")

\* mutant of failMessage: the UPDATE also asks for status = processing
failMessageFromProcessing(ms, id, errorMessage) ==
    [i \in 1..Len(ms) |->
        IF i \in RowsWithId(ms, id) /\ ms[i].status = "processing"
        THEN [ms[i] EXCEPT !.status = "failed", !.error_message = errorMessage]
        ELSE ms[i]]

(* failMessage: UPDATE ... SET status = failed, error_message WHERE id *)
failMessage(ms, id, errorMessage) ==
    [i \in 1..Len(ms) |->
        IF i \in RowsWithId(ms, id)
        THEN [ms[i] EXCEPT !.status = "failed", !.error_message = errorMessage]
        ELSE ms[i]]

(***************************************************************************)
(* pollMessages: SELECT ... WHERE to_agent AND status = pending            *)
(* ORDER BY created_at ASC LIMIT limit.  Rows with equal created_at come   *)
(* in an order the store chooses.                                          *)
(***************************************************************************)
\* C10 mutant of PollFilter: the status filter is missing
PollFilterNoStatus(ms, toAgent) ==
    {i \in 1..Len(ms) : ms[i].to_agent = toAgent}

PollFilter(ms, toAgent) ==
    {i \in 1..Len(ms) : ms[i].to_agent = toAgent /\ ms[i].status = "pending"}

(* the sequences that list the rows S once each, by ascending created_at *)
OrderByCreatedAt(ms, S) ==
    {s \in [1..Cardinality(S) -> S] :
        /\ \A i, j \in 1..Cardinality(S) : i # j => s[i] # s[j]
        /\ \A i, j \in 1..Cardinality(S) : i < j => ms[s[i]].created_at <= ms[s[j]].created_at}

Min(a, b) == IF a <= b THEN a ELSE b

Limit(s, n) == SubSeq(s, 1, Min(n, Len(s)))

(* the results pollMessages can return, as sequences of row positions *)
pollMessages(ms, toAgent, limit) ==
    {Limit(s, limit) : s \in OrderByCreatedAt(ms, PollFilter(ms, toAgent))}



(***************************************************************************)
(* Sample payloads and dispatch inputs.                                    *)
(***************************************************************************)
JobPayload == [EmptyPayload EXCEPT !.intent = "research", !.topic = "Agentic AI",
                                   !.topic_id = "t1", !.user_id = "u1",
                                   !.raw_input = "raw"]

GapPayload == [EmptyPayload EXCEPT !.topic = "Agentic AI", !.score = "0.5",
                                   !.outcome = "PARTIAL", !.gaps = "[g1]",
                                   !.recommendation = "needs_review",
                                   !.user_id = "u1", !.assessment_result_id = "a1"]

JobInput == [id |-> NoId, from_agent |-> "master", to_agent |-> "scout",
             message_type |-> "JobDispatch", pkind |-> "object",
             payload |-> JobPayload, status |-> "pending"]

GapInput == [JobInput EXCEPT !.from_agent = "assessment", !.to_agent = "learning",
                             !.message_type = "GapSignal", !.payload = GapPayload]

BusInputs ==
    { JobInput,
      GapInput,
      [JobInput EXCEPT !.status = Absent],
      [JobInput EXCEPT !.status = "done"],
      [JobInput EXCEPT !.status = "archived"],
      [JobInput EXCEPT !.id = 1],
      [JobInput EXCEPT !.from_agent = "intruder"],
      [JobInput EXCEPT !.to_agent = "nobody"],
      [JobInput EXCEPT !.message_type = "Ping"],
      [JobInput EXCEPT !.pkind = "scalar", !.payload = EmptyPayload],
      [JobInput EXCEPT !.payload = [JobPayload EXCEPT !.user_id = Absent]],
      [GapInput EXCEPT !.payload = [GapPayload EXCEPT !.gaps = Absent]] }

Reasons == {"e1", "e2"}

PollAgents == {"scout", "learning"}

DefaultLimit == 10

PollLimits == {1, DefaultLimit}

(* an id no row has *)
UnknownId == MaxMsgs + 1

CallIds == 1..(MaxMsgs + 1)

(* lastOp is the last bus call made by a caller: its arguments, what it   *)
(* returned and, for dispatch, the number n of rows before the call       *)
NoOp == [op |-> "none", ret |-> "none", id |-> NoId, agent |-> "none", limit |-> 0,
         result |-> <<>>, input |-> JobInput, reason |-> Null, n |-> 0]

StoreError(op) == [NoOp EXCEPT !.op = op, !.ret = "StoreError"]

(***************************************************************************)
(* Master agent: the calls of handleUserMessage in progress.  A request    *)
(* holds the locals of one call; master_agent_log is auditLog.             *)
(***************************************************************************)
NumRequests == 2

Requests == 1..NumRequests

NoResult == [intent |-> Absent, topic |-> Absent, confidence |-> Absent,
             dispatchedTo |-> Null, agentMessageId |-> NoId, response |-> Absent]

(* what Claude answers: the call throws, the answer has no text block, or *)
(* it has a text that is JSON or not, with these intent, topic, confidence *)
LLMText(intent, topic, confidence) ==
    [kind |-> "text", json |-> TRUE, intent |-> intent, topic |-> topic,
     confidence |-> confidence]

NoResponse == LLMText(Absent, Absent, Absent)

NewRequest == [pc |-> "new", userId |-> Absent, message |-> Absent, llm |-> NoResponse,
               intent |-> Absent, topic |-> Absent, confidence |-> Absent,
               topicId |-> Absent, target |-> Null, msgId |-> NoId, err |-> Null,
               audits |-> 0, auditOk |-> FALSE, result |-> NoResult]

(***************************************************************************)
(* State after construction: an empty table, idle workers.                 *)
(***************************************************************************)
(* rows the table holds at most when the workers run: a job, its result   *)
(* and the gap signal that follows it                                     *)
MaxWork == 3

NumWorkers == 2

Workers == 1..NumWorkers

(* a worker process: where it is in handleMessage (pc), the id of the     *)
(* message it was invoked on (cur), the error it has caught (err), and    *)
(* the handler's locals: the entity it found or saved (ref), whether the  *)
(* skill map came from the cache, and the assessment outcome             *)
IdleWorker == [pc |-> "idle", cur |-> NoId, err |-> Null, ref |-> Absent,
               cached |-> FALSE, outcome |-> Absent, skill |-> Absent,
               depth |-> "beginner"]

(* what the handling of a message has done so far: bodies and noops count *)
(* the invocations whose claim returned the record and null, ext and      *)
(* wrote the external-capability calls and entity inserts, fails the      *)
(* failMessage calls, sent the ids of the follow-ups dispatched, run how  *)
(* the invocation that won the claim ended                                *)
NoHist == [bodies |-> 0, noops |-> 0, ext |-> 0, wrote |-> 0, fails |-> 0,
           sent |-> {}, run |-> "none"]

(* topics: the rows the migration seeds (001) *)
TopicsTable == {[id |-> "t1", name |-> "Agentic AI"]}

SkillMapIds == <<"s1", "s2", "s3", "s4", "s5">>
ContentIds == <<"c1", "c2", "c3", "c4", "c5", "c6">>
AssessmentIds == <<"a1", "a2", "a3", "a4", "a5">>

(* content_items holds one lesson when the system starts *)
SeedContent == [id |-> "c1", topic_id |-> "t1", skill |-> "Agentic AI",
                depth |-> "beginner", created_at |-> 0]

NoEntities == [skill_map |-> <<>>, content_items |-> <<SeedContent>>,
               assessment_results |-> <<>>, user_progress |-> <<>>]

(* no function of the scorer, the sequencer or the research module is being *)
(* evaluated on its own                                                     *)
NoCalc == [fn |-> "none"]

(* POST /api/chat: no request has arrived.  A request holds the locals of *)
(* one call of the route: where it is (pc), the userId of the body, the   *)
(* id of the scout message it found, and the agentResult with the id of   *)
(* the message it was taken from                                          *)
NoChat == [pc |-> "new", userId |-> Absent, scoutMsg |-> NoId,
           agentResult |-> Absent, replyId |-> NoId, http |-> 0]

(* nothing on the bus, nobody at work *)
Quiet ==
    /\ chat = NoChat
    /\ msgs = <<>>
    /\ now = 0
    /\ lastOp = NoOp
    /\ claimWins = [id \in CallIds |-> 0]
    /\ wk = [w \in Workers |-> IdleWorker]
    /\ hist = [id \in 1..MaxWork |-> NoHist]
    /\ rq = [r \in Requests |-> NewRequest]
    /\ auditLog = <<>>

Init ==
    /\ Quiet
    /\ entities = NoEntities
    /\ calc = NoCalc

workerVars == <<wk, hist, entities>>

routerVars == <<rq, auditLog>>

(***************************************************************************)
(* SpecBus: the five bus functions, called by anyone with anything.        *)
(* storeOk = FALSE is the store answering the statement with an error,     *)
(* which every function turns into a thrown Error.                         *)
(***************************************************************************)
BusDispatch ==
    \E input \in BusInputs, storeOk \in BOOLEAN :
        /\ Len(msgs) < MaxMsgs
        /\ IF ~AgentMessageInsertSchema(input)
           THEN /\ lastOp' = [NoOp EXCEPT !.op = "dispatch", !.ret = "ValidationError",
                                          !.input = input, !.n = Len(msgs)]
                /\ UNCHANGED msgs
           ELSE IF ~storeOk
           THEN /\ lastOp' = StoreError("dispatch")
                /\ UNCHANGED msgs
           ELSE /\ msgs' = InsertRow(msgs, input, now)
                /\ lastOp' = [NoOp EXCEPT !.op = "dispatch", !.ret = "record",
                                          !.id = msgs'[Len(msgs')].id,
                                          !.input = input, !.n = Len(msgs)]
        /\ UNCHANGED <<now, claimWins, workerVars, routerVars, calc, chat>>

\* mutant of BusPoll: the poll marks the rows it returns as processing
BusPollMarks ==
    \E toAgent \in PollAgents, limit \in PollLimits :
        /\ \E r \in pollMessages(msgs, toAgent, limit) :
              /\ lastOp' = [NoOp EXCEPT !.op = "poll", !.ret = "rows",
                                        !.agent = toAgent, !.limit = limit,
                                        !.result = r]
              /\ msgs' = [i \in 1..Len(msgs) |->
                            IF \E x \in 1..Len(r) : r[x] = i
                            THEN [msgs[i] EXCEPT !.status = "processing"]
                            ELSE msgs[i]]
        /\ UNCHANGED <<now, claimWins, workerVars, routerVars, calc, chat>>

BusPoll ==
    \E toAgent \in PollAgents, limit \in PollLimits, storeOk \in BOOLEAN :
        /\ IF ~storeOk
           THEN lastOp' = StoreError("poll")
           ELSE \E r \in pollMessages(msgs, toAgent, limit) :
                    lastOp' = [NoOp EXCEPT !.op = "poll", !.ret = "rows",
                                           !.agent = toAgent, !.limit = limit,
                                           !.result = r]
        /\ UNCHANGED <<msgs, now, claimWins, workerVars, routerVars, calc, chat>>

BusClaim ==
    \E id \in Ids(msgs) \cup {UnknownId}, storeOk \in BOOLEAN :
        /\ IF ~storeOk
           THEN /\ lastOp' = StoreError("claim")
                /\ UNCHANGED <<msgs, claimWins>>
           ELSE /\ msgs' = claimMessage(msgs, id)
                /\ IF Cardinality(claimMatches(msgs, id)) = 1
                   THEN /\ claimWins' = [claimWins EXCEPT ![id] = @ + 1]
                        /\ lastOp' = [NoOp EXCEPT !.op = "claim", !.ret = "record", !.id = id]
                   ELSE /\ UNCHANGED claimWins
                        /\ lastOp' = [NoOp EXCEPT !.op = "claim", !.ret = "null", !.id = id]
        /\ UNCHANGED <<now, workerVars, routerVars, calc, chat>>

BusComplete ==
    \E id \in Ids(msgs) \cup {UnknownId}, storeOk \in BOOLEAN :
        /\ IF ~storeOk
           THEN /\ lastOp' = StoreError("complete")
                /\ UNCHANGED msgs
           ELSE /\ msgs' = completeMessage(msgs, id)
                /\ lastOp' = [NoOp EXCEPT !.op = "complete", !.ret = "void", !.id = id]
        /\ UNCHANGED <<now, claimWins, workerVars, routerVars, calc, chat>>

BusFail ==
    \E id \in Ids(msgs) \cup {UnknownId}, reason \in Reasons, storeOk \in BOOLEAN :
        /\ IF ~storeOk
           THEN /\ lastOp' = StoreError("fail")
                /\ UNCHANGED msgs
           ELSE /\ msgs' = failMessage(msgs, id, reason)
                /\ lastOp' = [NoOp EXCEPT !.op = "fail", !.ret = "void", !.id = id,
                                          !.reason = reason]
        /\ UNCHANGED <<now, claimWins, workerVars, routerVars, calc, chat>>

(* time passes: created_at is the store's clock at the insert, and two    *)
(* inserts may see the same clock value                                   *)
Tick ==
    /\ now < MaxClock
    /\ now' = now + 1
    /\ lastOp' = NoOp
    /\ UNCHANGED <<msgs, claimWins, workerVars, routerVars, calc, chat>>

NextBus == BusDispatch \/ BusPoll \/ BusClaim \/ BusComplete \/ BusFail \/ Tick

SpecBus == Init /\ [][NextBus]_vars

(***************************************************************************)
(* Worker agents.  handleMessage of Scout, Content Creator, Assessment and *)
(* Learning: claim, then inside try: parse the payload, resolve the        *)
(* entities, call the external capability, persist, dispatch the           *)
(* follow-ups, complete; the catch calls failMessage and rethrows.  Every  *)
(* await on the store or on a capability is one step.                      *)
(***************************************************************************)
WorkerAgents == {"scout", "content_creator", "assessment", "learning"}

CreatorJob == [JobInput EXCEPT !.to_agent = "content_creator",
                               !.payload = [JobPayload EXCEPT !.intent = "create_content"]]

(* the assessment job is another learner's *)
AssessJob == [JobInput EXCEPT !.to_agent = "assessment",
                              !.payload = [JobPayload EXCEPT !.intent = "assess",
                                                             !.user_id = "u2",
                                                             !.content_item_id = "c1"]]

LearnJob == [JobInput EXCEPT !.to_agent = "learning",
                             !.payload = [JobPayload EXCEPT !.intent = "learn"]]

(* the GapSignal of a failed assessment *)
GapFailInput ==
    [GapInput EXCEPT !.payload = [GapPayload EXCEPT !.score = "0", !.outcome = "FAIL",
                                                    !.recommendation = "needs_remediation"]]

(* what clients put on the bus for the workers: the router's JobDispatch   *)
(* for each agent, the GapSignal of a partial and of a failed assessment,  *)
(* a JobDispatch whose payload lacks user_id, an assessment job without    *)
(* content_item_id and a job that names a topic the topics table does not  *)
(* have                                                                    *)
WorkInputs ==
    { JobInput, CreatorJob, AssessJob, LearnJob, GapInput, GapFailInput,
      [JobInput EXCEPT !.payload = [JobPayload EXCEPT !.user_id = Absent]],
      [AssessJob EXCEPT !.payload = [JobPayload EXCEPT !.intent = "assess"]],
      [LearnJob EXCEPT !.payload = [JobPayload EXCEPT !.intent = "learn",
                                                      !.topic = "Zed",
                                                      !.topic_id = Absent]] }

(* name ILIKE %pattern% on the seeded names *)
ILike(name, pattern) == pattern \in {name, "Agentic", "AI"}

(* .from("topics").select("id").ilike("name", `%${topic}%`).limit(1).single() *)
TopicLookup(topic) ==
    IF \E r \in TopicsTable : ILike(r.name, topic)
    THEN (CHOOSE r \in TopicsTable : ILike(r.name, topic)).id
    ELSE Absent

(* payload.topic ?? "Agentic AI" *)
TopicOf(p) == IF p.topic = Absent THEN "Agentic AI" ELSE p.topic

IsGapSignal(m) == m.to_agent = "learning" /\ m.message_type = "GapSignal"

(* the schema each handler parses msg.payload with *)
PayloadParses(m) ==
    IF IsGapSignal(m) THEN GapSignalPayloadSchema(m.payload)
    ELSE JobDispatchPayloadSchema(m.payload)

(* does the handler resolve what it needs without asking the store, does  *)
(* it need a lookup, or is the reference missing from the payload         *)
ResolveKind(m) ==
    IF m.to_agent = "assessment"
    THEN IF m.payload.content_item_id = Absent THEN "missing" ELSE "lookup"
    ELSE IF IsGapSignal(m) THEN "lookup"
    ELSE IF m.payload.topic_id # Absent THEN "given" ELSE "lookup"

(* the store's answer to the handler's lookup *)
LookupFinds(m) ==
    IF m.to_agent = "assessment"
    THEN \E i \in 1..Len(entities.content_items) :
            entities.content_items[i].id = m.payload.content_item_id
    ELSE TopicLookup(TopicOf(m.payload)) # Absent

(* the step that follows a successful resolve in each handler *)
AfterResolve(m) ==
    CASE m.to_agent = "scout" -> "cache"
      [] m.to_agent = "content_creator" -> "work"
      [] m.to_agent = "assessment" -> "work"
      [] IsGapSignal(m) -> "progress"
      [] OTHER -> "select"

CACHE_MAX_AGE == 2

\* mutant of getCachedSkillMap: the most recent skill map of the topic,
\* however old
getCachedSkillMapAnyAge(sm, topicId, t) ==
    LET any == {i \in 1..Len(sm) : sm[i].topic_id = topicId}
    IN  IF any = {} THEN Absent
        ELSE sm[CHOOSE i \in any :
                    \A j \in any : sm[j].generated_at <= sm[i].generated_at].id

(* getCachedSkillMap: the most recent skill map of the topic generated    *)
(* within CACHE_MAX_AGE (in clock ticks of 30 minutes), or Absent         *)
getCachedSkillMap(sm, topicId, t) ==
    LET fresh == {i \in 1..Len(sm) : /\ sm[i].topic_id = topicId
                                      /\ sm[i].generated_at >= t - CACHE_MAX_AGE}
    IN  IF fresh = {} THEN Absent
        ELSE sm[CHOOSE i \in fresh :
                    \A j \in fresh : sm[j].generated_at <= sm[i].generated_at].id

(* scoreAnswers' results: outcome, score, gaps and recommendation *)
ScoreResults ==
    [PASS |-> [score |-> "1", gaps |-> "[]", recommendation |-> "advance"],
     PARTIAL |-> [score |-> "0.5", gaps |-> "[g1]", recommendation |-> "needs_review"],
     FAIL |-> [score |-> "0", gaps |-> "[g1]", recommendation |-> "needs_remediation"]]

(***************************************************************************)
(* Learning: user_progress is kept most recently updated first, which is   *)
(* the order selectNextContent reads it in.                                *)
(***************************************************************************)
RECURSIVE Without(_, _, _, _)
Without(rows, u, t, skill) ==
    IF rows = <<>> THEN <<>>
    ELSE IF rows[1].user_id = u /\ rows[1].topic_id = t /\ rows[1].skill = skill
         THEN Without(Tail(rows), u, t, skill)
         ELSE <<rows[1]>> \o Without(Tail(rows), u, t, skill)

(* updateProgress: upsert on (user_id, topic_id, skill) *)
updateProgress(rows, u, t, skill, status, depth) ==
    <<[user_id |-> u, topic_id |-> t, skill |-> skill, status |-> status,
       current_depth |-> depth]>> \o Without(rows, u, t, skill)

FirstWith(rows, status) ==
    LET S == {i \in 1..Len(rows) : rows[i].status = status}
    IN  IF S = {} THEN 0 ELSE CHOOSE i \in S : \A j \in S : i <= j

NothingAvailable == [content |-> Absent, skill |-> Absent, depth |-> "beginner"]

\* mutant of selectNextContent: the fallback takes the newest lesson of any
\* topic
selectNextContentNewest(ent, u, t) ==
    LET items == ent.content_items
        beginners == {i \in 1..Len(items) : items[i].depth = "beginner"}
        newest == {i \in beginners :
                      \A j \in beginners : items[i].created_at >= items[j].created_at}
    IN  IF beginners # {}
        THEN {[content |-> items[i].id, skill |-> items[i].skill, depth |-> "beginner"] :
                 i \in newest}
        ELSE {NothingAvailable}

(* selectNextContent: the recommendations it can return *)
selectNextContent(ent, u, t) ==
    LET rows == SelectSeq(ent.user_progress, LAMBDA r : r.user_id = u /\ r.topic_id = t)
        r1 == FirstWith(rows, "needs_remediation")
        r2 == FirstWith(rows, "in_progress")
        r3 == FirstWith(rows, "not_started")
        target == IF r1 # 0 THEN r1 ELSE IF r2 # 0 THEN r2 ELSE r3
        items == ent.content_items
        forTarget == IF target = 0 THEN {}
                     ELSE {i \in 1..Len(items) :
                              /\ items[i].topic_id = t
                              /\ items[i].skill = rows[target].skill
                              /\ items[i].depth = rows[target].current_depth}
        beginners == {i \in 1..Len(items) :
                         items[i].topic_id = t /\ items[i].depth = "beginner"}
        oldest == {i \in beginners :
                      \A j \in beginners : items[i].created_at <= items[j].created_at}
    IN  IF forTarget # {}
        THEN {[content |-> items[i].id, skill |-> rows[target].skill,
               depth |-> rows[target].current_depth] : i \in forTarget}
        ELSE IF beginners # {}
        THEN {[content |-> items[i].id, skill |-> items[i].skill, depth |-> "beginner"] :
                 i \in oldest}
        ELSE {NothingAvailable}

(***************************************************************************)
(* Follow-up messages.                                                     *)
(***************************************************************************)
FollowUp(from, to, type, payload) ==
    [id |-> NoId, from_agent |-> from, to_agent |-> to, message_type |-> type,
     pkind |-> "object", payload |-> payload, status |-> "pending"]

(* topicId as the handler resolves it *)
TopicIdOf(m) ==
    IF ~IsGapSignal(m) /\ m.payload.topic_id # Absent THEN m.payload.topic_id
    ELSE TopicLookup(TopicOf(m.payload))

\* mutant of FirstFollowUp: the Assessment handler sends its GapSignal first
FirstFollowUpGapFirst(m, w) ==
    IF m.to_agent = "assessment"
    THEN FollowUp("assessment", "learning", "GapSignal",
                  [EmptyPayload EXCEPT !.topic = TopicOf(m.payload),
                                       !.score = ScoreResults[w.outcome].score,
                                       !.outcome = w.outcome,
                                       !.gaps = ScoreResults[w.outcome].gaps,
                                       !.recommendation =
                                           ScoreResults[w.outcome].recommendation,
                                       !.user_id = m.payload.user_id,
                                       !.assessment_result_id = w.ref])
    ELSE FollowUp(m.to_agent, "master", "ProgressUpdate",
                  [EmptyPayload EXCEPT !.user_id = m.payload.user_id,
                                       !.topic = TopicOf(m.payload)])

(* the first message a handler dispatches for message m, w being the      *)
(* worker's locals                                                        *)
FirstFollowUp(m, w) ==
    LET p == m.payload IN
    CASE m.to_agent = "scout" ->
            FollowUp("scout", "master", "SkillMapReady",
                     [EmptyPayload EXCEPT !.topic = TopicOf(p), !.topic_id = TopicIdOf(m),
                                          !.ref_id = w.ref, !.user_id = p.user_id,
                                          !.cached = IF w.cached THEN "true" ELSE Absent])
      [] m.to_agent = "content_creator" ->
            FollowUp("content_creator", "master", "ContentReady",
                     [EmptyPayload EXCEPT !.topic = TopicOf(p), !.topic_id = TopicIdOf(m),
                                          !.content_item_id = w.ref,
                                          !.depth = IF p.depth = Absent THEN "beginner"
                                                    ELSE p.depth,
                                          !.user_id = p.user_id])
      [] m.to_agent = "assessment" ->
            FollowUp("assessment", "master", "AssessmentResult",
                     [EmptyPayload EXCEPT !.user_id = p.user_id, !.topic = TopicOf(p),
                                          !.score = ScoreResults[w.outcome].score,
                                          !.outcome = w.outcome,
                                          !.recommendation = ScoreResults[w.outcome].recommendation,
                                          !.gaps = ScoreResults[w.outcome].gaps,
                                          !.assessment_result_id = w.ref])
      [] OTHER ->
            FollowUp("learning", "master", "ProgressUpdate",
                     [EmptyPayload EXCEPT !.user_id = p.user_id, !.topic = TopicOf(p),
                                          !.topic_id = TopicIdOf(m), !.content_item_id = w.ref,
                                          !.gaps = IF IsGapSignal(m) THEN p.gaps ELSE Absent])

\* mutant of GapSignalFollowUp: the GapSignal names the default learner
GapSignalFollowUpDefaultUser(m, w) ==
    FollowUp("assessment", "learning", "GapSignal",
             [EmptyPayload EXCEPT !.topic = TopicOf(m.payload),
                                  !.score = ScoreResults[w.outcome].score,
                                  !.outcome = w.outcome,
                                  !.gaps = ScoreResults[w.outcome].gaps,
                                  !.recommendation = ScoreResults[w.outcome].recommendation,
                                  !.user_id = "u1",
                                  !.assessment_result_id = w.ref])

(* Assessment's GapSignal to the Learning agent *)
GapSignalFollowUp(m, w) ==
    FollowUp("assessment", "learning", "GapSignal",
             [EmptyPayload EXCEPT !.topic = TopicOf(m.payload),
                                  !.score = ScoreResults[w.outcome].score,
                                  !.outcome = w.outcome,
                                  !.gaps = ScoreResults[w.outcome].gaps,
                                  !.recommendation = ScoreResults[w.outcome].recommendation,
                                  !.user_id = m.payload.user_id,
                                  !.assessment_result_id = w.ref])

\* mutant of HasSecondFollowUp: the GapSignal is dispatched whatever the gaps
HasSecondFollowUpAlways(m, w) == m.to_agent = "assessment"

(* if (result.gaps.length > 0): does the handler dispatch a second message *)
HasSecondFollowUp(m, w) ==
    m.to_agent = "assessment" /\ ScoreResults[w.outcome].gaps # "[]"

\* mutant of AfterClaim: the handler goes on whatever claimMessage returned
AfterClaimAlways(claimed) == "resolve"

(* if (!claimed) return: the step after claimMessage has answered *)
AfterClaim(claimed) == IF claimed THEN "resolve" ELSE "idle"

\* mutant of AfterPersist: completeMessage before the follow-up is dispatched
AfterPersistSkip(m) == "complete"

(* the handler's order of statements after the entity is saved (or found  *)
(* in the cache): dispatch the follow-up, then complete                   *)
AfterPersist(m) == "dispatch"

(* the row of the table with the given id *)
Row(id) == msgs[CHOOSE i \in RowsWithId(msgs, id) : TRUE]

Set(w, f) == wk' = [wk EXCEPT ![w] = f]

Note(id, f) == hist' = [hist EXCEPT ![id] = f]

Throw(w, e) == Set(w, [wk[w] EXCEPT !.pc = "fail", !.err = e])

(* dispatchMessage by a client of the bus (the router, a test, an         *)
(* operator)                                                              *)
ClientDispatch ==
    \E input \in WorkInputs, storeOk \in BOOLEAN :
        /\ Len(msgs) < MaxMsgs
        /\ AgentMessageInsertSchema(input)
        /\ storeOk
        /\ msgs' = InsertRow(msgs, input, now)
        /\ UNCHANGED <<now, lastOp, claimWins, workerVars, routerVars, calc, chat>>

(* the invoker polls an agent's mailbox and calls the agent's             *)
(* handleMessage on one of the messages returned                          *)
WPoll(w) ==
    /\ wk[w].pc = "idle"
    /\ \E a \in WorkerAgents :
         \E r \in pollMessages(msgs, a, DefaultLimit) :
           \E k \in 1..Len(r) :
              Set(w, [IdleWorker EXCEPT !.pc = "claim", !.cur = msgs[r[k]].id])
    /\ UNCHANGED <<msgs, now, lastOp, claimWins, hist, entities, routerVars, calc, chat>>

(* const claimed = await claimMessage(msg.id); if (!claimed) return; *)
WClaim(w) ==
    /\ wk[w].pc = "claim"
    /\ \E storeOk \in BOOLEAN :
         IF ~storeOk
         THEN /\ Set(w, IdleWorker)
              /\ UNCHANGED <<msgs, hist>>
         ELSE LET id == wk[w].cur
                  claimed == Cardinality(claimMatches(msgs, id)) = 1
                  next == AfterClaim(claimed)
              IN  /\ msgs' = claimMessage(msgs, id)
                  /\ Set(w, IF next = "idle" THEN IdleWorker
                            ELSE [wk[w] EXCEPT !.pc = next])
                  /\ Note(id, [hist[id] EXCEPT
                                 !.bodies = IF next = "idle" THEN @ ELSE @ + 1,
                                 !.noops = IF claimed THEN @ ELSE @ + 1,
                                 !.run = IF next = "idle" THEN @ ELSE "body"])
    /\ UNCHANGED <<now, lastOp, claimWins, entities, routerVars, calc, chat>>

(* parse msg.payload, then resolve the topic id or load the content item *)
WResolve(w) ==
    /\ wk[w].pc = "resolve"
    /\ LET m == Row(wk[w].cur) IN
         IF ~PayloadParses(m) THEN Throw(w, "validation")
         ELSE IF ResolveKind(m) = "missing" THEN Throw(w, "notfound")
         ELSE IF ResolveKind(m) = "given"
         THEN Set(w, [wk[w] EXCEPT !.pc = AfterResolve(m)])
         ELSE \E dbOk \in BOOLEAN :
                IF dbOk /\ LookupFinds(m)
                THEN Set(w, [wk[w] EXCEPT !.pc = AfterResolve(m)])
                ELSE Throw(w, "notfound")
    /\ UNCHANGED <<msgs, now, lastOp, claimWins, hist, entities, routerVars, calc, chat>>

(* Scout: const cached = await getCachedSkillMap(db, topicId) *)
WCache(w) ==
    /\ wk[w].pc = "cache"
    /\ LET m == Row(wk[w].cur) IN
       \E dbOk \in BOOLEAN :
         LET c == IF dbOk THEN getCachedSkillMap(entities.skill_map, TopicIdOf(m), now)
                  ELSE Absent
         IN  IF c # Absent
             THEN Set(w, [wk[w] EXCEPT !.pc = AfterPersist(m), !.ref = c, !.cached = TRUE])
             ELSE Set(w, [wk[w] EXCEPT !.pc = "work"])
    /\ UNCHANGED <<msgs, now, lastOp, claimWins, hist, entities, routerVars, calc, chat>>

(* the external capability: researchTopic, generateContent, scoreAnswers *)
WWork(w) ==
    /\ wk[w].pc = "work"
    /\ LET id == wk[w].cur
           m == Row(id)
       IN  /\ Note(id, [hist[id] EXCEPT !.ext = @ + 1])
           /\ \E ok \in BOOLEAN :
                IF ~ok THEN Throw(w, "capability")
                ELSE IF m.to_agent = "assessment"
                THEN \E o \in Outcome :
                        Set(w, [wk[w] EXCEPT !.pc = "persist", !.outcome = o])
                ELSE Set(w, [wk[w] EXCEPT !.pc = "persist"])
    /\ UNCHANGED <<msgs, now, lastOp, claimWins, entities, routerVars, calc, chat>>

\* mutant of SaveEntity: the Assessment handler also marks the learner's
\* progress itself when it stores the result
SaveEntityAndProgress(ent, m, w, t) ==
    LET p == m.payload IN
    CASE m.to_agent = "scout" ->
            [ent EXCEPT !.skill_map =
                Append(@, [id |-> SkillMapIds[Len(@) + 1], topic_id |-> TopicIdOf(m),
                           generated_at |-> t])]
      [] m.to_agent = "content_creator" ->
            [ent EXCEPT !.content_items =
                Append(@, [id |-> ContentIds[Len(@) + 1], topic_id |-> TopicIdOf(m),
                           skill |-> TopicOf(p),
                           depth |-> IF p.depth = Absent THEN "beginner" ELSE p.depth,
                           created_at |-> t])]
      [] OTHER ->
            [ent EXCEPT !.assessment_results =
                Append(@, [id |-> AssessmentIds[Len(@) + 1], user_id |-> p.user_id,
                           content_item_id |-> p.content_item_id,
                           outcome |-> w.outcome]),
                        !.user_progress =
                updateProgress(@, p.user_id, "t1", "g1", "needs_remediation", "beginner")]

(* the handler's insert into skill_map, content_items or assessment_results *)
SaveEntity(ent, m, w, t) ==
    LET p == m.payload IN
    CASE m.to_agent = "scout" ->
            [ent EXCEPT !.skill_map =
                Append(@, [id |-> SkillMapIds[Len(@) + 1], topic_id |-> TopicIdOf(m),
                           generated_at |-> t])]
      [] m.to_agent = "content_creator" ->
            [ent EXCEPT !.content_items =
                Append(@, [id |-> ContentIds[Len(@) + 1], topic_id |-> TopicIdOf(m),
                           skill |-> TopicOf(p),
                           depth |-> IF p.depth = Absent THEN "beginner" ELSE p.depth,
                           created_at |-> t])]
      [] OTHER ->
            [ent EXCEPT !.assessment_results =
                Append(@, [id |-> AssessmentIds[Len(@) + 1], user_id |-> p.user_id,
                           content_item_id |-> p.content_item_id,
                           outcome |-> w.outcome])]

(* the id the insert returns: .select("id").single() *)
SavedId(ent, m) ==
    CASE m.to_agent = "scout" -> ent.skill_map[Len(ent.skill_map)].id
      [] m.to_agent = "content_creator" -> ent.content_items[Len(ent.content_items)].id
      [] OTHER -> ent.assessment_results[Len(ent.assessment_results)].id

WPersist(w) ==
    /\ wk[w].pc = "persist"
    /\ LET id == wk[w].cur
           m == Row(id)
       IN  \E dbOk \in BOOLEAN :
             IF ~dbOk
             THEN /\ Throw(w, "persist")
                  /\ UNCHANGED <<entities, hist>>
             ELSE /\ entities' = SaveEntity(entities, m, wk[w], now)
                  /\ Note(id, [hist[id] EXCEPT !.wrote = @ + 1])
                  /\ Set(w, [wk[w] EXCEPT !.pc = AfterPersist(m),
                                          !.ref = SavedId(entities', m)])
    /\ UNCHANGED <<msgs, now, lastOp, claimWins, routerVars, calc, chat>>

(* Learning: const recommendation = await selectNextContent(user, topic) *)
WSelect(w) ==
    /\ wk[w].pc = "select"
    /\ LET m == Row(wk[w].cur) IN
       \E dbOk \in BOOLEAN :
         \E rec \in IF dbOk THEN selectNextContent(entities, m.payload.user_id, TopicIdOf(m))
                    ELSE {NothingAvailable} :
            Set(w, [wk[w] EXCEPT
                      !.ref = rec.content, !.skill = rec.skill, !.depth = rec.depth,
                      !.pc = IF ~IsGapSignal(m) /\ rec.skill # Absent /\ rec.content # Absent
                             THEN "progress" ELSE "dispatch"])
    /\ UNCHANGED <<msgs, now, lastOp, claimWins, hist, entities, routerVars, calc, chat>>

\* mutant of GapDepth: a gap always sends the learner back to beginner
GapDepthBeginner(recommendation) == "beginner"

(* handleGapSignal: const currentDepth =                                  *)
(*   payload.recommendation === "needs_remediation" ? "beginner"          *)
(*                                                  : "intermediate"      *)
GapDepth(recommendation) ==
    IF recommendation = "needs_remediation" THEN "beginner" ELSE "intermediate"

(* Learning: updateProgress, for the recommended skill (JobDispatch) or   *)
(* for each gap (GapSignal); the upsert's error is not looked at          *)
WProgress(w) ==
    /\ wk[w].pc = "progress"
    /\ LET m == Row(wk[w].cur)
           p == m.payload
           rows == entities.user_progress
       IN  /\ \E dbOk \in BOOLEAN :
                entities' =
                  IF ~dbOk THEN entities
                  ELSE IF ~IsGapSignal(m)
                  THEN [entities EXCEPT !.user_progress =
                          updateProgress(rows, p.user_id, TopicIdOf(m), wk[w].skill,
                                         "in_progress", wk[w].depth)]
                  ELSE IF p.gaps = "[]" THEN entities
                  ELSE [entities EXCEPT !.user_progress =
                          updateProgress(rows, p.user_id, TopicIdOf(m), "g1",
                                         "needs_remediation",
                                         GapDepth(p.recommendation))]
           /\ Set(w, [wk[w] EXCEPT !.pc = IF IsGapSignal(m) THEN "select" ELSE "dispatch"])
    /\ UNCHANGED <<msgs, now, lastOp, claimWins, hist, routerVars, calc, chat>>

(* await dispatchMessage(first follow-up); the table takes as many rows   *)
(* as handling records are kept                                           *)
WDispatch(w) ==
    /\ wk[w].pc = "dispatch"
    /\ Len(msgs) + 1 \in DOMAIN hist
    /\ LET id == wk[w].cur
           m == Row(id)
           input == FirstFollowUp(m, wk[w])
       IN  IF ~AgentMessageInsertSchema(input)
           THEN /\ Throw(w, "validation")
                /\ UNCHANGED <<msgs, hist>>
           ELSE \E storeOk \in BOOLEAN :
                  IF ~storeOk
                  THEN /\ Throw(w, "store")
                       /\ UNCHANGED <<msgs, hist>>
                  ELSE /\ msgs' = InsertRow(msgs, input, now)
                       /\ Note(id, [hist[id] EXCEPT !.sent = @ \cup {msgs'[Len(msgs')].id}])
                       /\ Set(w, [wk[w] EXCEPT !.pc = IF HasSecondFollowUp(m, wk[w])
                                                      THEN "dispatch2" ELSE "complete"])
    /\ UNCHANGED <<now, lastOp, claimWins, entities, routerVars, calc, chat>>

(* Assessment: await dispatchMessage(GapSignal) when there are gaps *)
WDispatch2(w) ==
    /\ wk[w].pc = "dispatch2"
    /\ Len(msgs) + 1 \in DOMAIN hist
    /\ LET id == wk[w].cur
           m == Row(id)
           input == GapSignalFollowUp(m, wk[w])
       IN  IF ~AgentMessageInsertSchema(input)
           THEN /\ Throw(w, "validation")
                /\ UNCHANGED <<msgs, hist>>
           ELSE \E storeOk \in BOOLEAN :
                  IF ~storeOk
                  THEN /\ Throw(w, "store")
                       /\ UNCHANGED <<msgs, hist>>
                  ELSE /\ msgs' = InsertRow(msgs, input, now)
                       /\ Note(id, [hist[id] EXCEPT !.sent = @ \cup {msgs'[Len(msgs')].id}])
                       /\ Set(w, [wk[w] EXCEPT !.pc = "complete"])
    /\ UNCHANGED <<now, lastOp, claimWins, entities, routerVars, calc, chat>>

(* await completeMessage(msg.id), the last statement of the try block *)
WComplete(w) ==
    /\ wk[w].pc = "complete"
    /\ LET id == wk[w].cur IN
       \E storeOk \in BOOLEAN :
         IF ~storeOk
         THEN /\ Throw(w, "store")
              /\ UNCHANGED <<msgs, hist>>
         ELSE /\ msgs' = completeMessage(msgs, id)
              /\ Note(id, [hist[id] EXCEPT !.run = "returned"])
              /\ Set(w, IdleWorker)
    /\ UNCHANGED <<now, lastOp, claimWins, entities, routerVars, calc, chat>>

(* catch (err) { await failMessage(msg.id, errorMessage); throw err; }    *)
(* When failMessage itself throws, that error leaves the handler and the  *)
(* row is not touched.                                                    *)
WFail(w) ==
    /\ wk[w].pc = "fail"
    /\ LET id == wk[w].cur IN
       \E storeOk \in BOOLEAN :
         IF ~storeOk
         THEN /\ Note(id, [hist[id] EXCEPT !.fails = @ + 1, !.run = "raisedStore"])
              /\ UNCHANGED msgs
         ELSE /\ msgs' = failMessage(msgs, id, wk[w].err)
              /\ Note(id, [hist[id] EXCEPT !.fails = @ + 1, !.run = "raised"])
    /\ Set(w, IdleWorker)
    /\ UNCHANGED <<now, lastOp, claimWins, entities, routerVars, calc, chat>>

WorkerStep(w) ==
    \/ WPoll(w) \/ WClaim(w) \/ WResolve(w) \/ WCache(w) \/ WWork(w) \/ WPersist(w)
    \/ WSelect(w) \/ WProgress(w) \/ WDispatch(w) \/ WDispatch2(w)
    \/ WComplete(w) \/ WFail(w)

Next == ClientDispatch \/ \E w \in Workers : WorkerStep(w)

Spec == Init /\ [][Next]_vars

(***************************************************************************)
(* The workers under fair scheduling (SpecLive).  A client dispatches      *)
(* MaxLive messages and the table has room for the longest chain each of   *)
(* them can start: the job, its AssessmentResult, its GapSignal and the    *)
(* ProgressUpdate that answers the GapSignal.  No worker process dies: a   *)
(* worker inside handleMessage goes on to its next await.                  *)
(***************************************************************************)
MaxLive == 1

LiveIds == 1..(4 * MaxLive)

InitLive ==
    /\ chat = NoChat
    /\ msgs = <<>>
    /\ now = 0
    /\ lastOp = NoOp
    /\ claimWins = [id \in CallIds |-> 0]
    /\ wk = [w \in Workers |-> IdleWorker]
    /\ hist = [id \in LiveIds |-> NoHist]
    /\ rq = [r \in Requests |-> NewRequest]
    /\ auditLog = <<>>
    /\ entities = NoEntities
    /\ calc = NoCalc

LiveDispatch ==
    \E input \in WorkInputs, storeOk \in BOOLEAN :
        /\ Len(msgs) < MaxLive
        /\ AgentMessageInsertSchema(input)
        /\ storeOk
        /\ msgs' = InsertRow(msgs, input, now)
        /\ UNCHANGED <<now, lastOp, claimWins, workerVars, routerVars, calc, chat>>

(* the steps of handleMessage once the invoker has called it *)
HandlerStep(w) ==
    \/ WClaim(w) \/ WResolve(w) \/ WCache(w) \/ WWork(w) \/ WPersist(w)
    \/ WSelect(w) \/ WProgress(w) \/ WDispatch(w) \/ WDispatch2(w)
    \/ WComplete(w) \/ WFail(w)

NextLive == LiveDispatch \/ \E w \in Workers : WorkerStep(w)

SpecLive ==
    /\ InitLive
    /\ [][NextLive]_vars
    /\ \A w \in Workers : WF_vars(HandlerStep(w))


(***************************************************************************)
(* Master agent.  handleUserMessage: classify the intent, resolve the      *)
(* topic, dispatch a JobDispatch to the agent of the intent, write         *)
(* master_agent_log, return.  One action per await.                        *)
(***************************************************************************)
UserIds == {"u1", "guest"}

Messages == {"raw"}

Topics == {Absent, "", "Agentic AI", "Quantum"}

LLMResponses ==
    {LLMText(i, t, "0.9") : i \in Intent, t \in Topics}
    \cup {[NoResponse EXCEPT !.kind = "throw"],
          [NoResponse EXCEPT !.kind = "notext"],
          [NoResponse EXCEPT !.json = FALSE],
          LLMText("chat", "Agentic AI", "0.9"),
          LLMText("research", Null, "0.9"),
          LLMText("research", "Agentic AI", "1.5")}

\* mutant of LLMIntentClassificationSchema: the intent is any string
LLMIntentClassificationSchemaAnyIntent(o) ==
    /\ o.topic # Null
    /\ o.confidence \in Scores \cup {"0.9"}

(* LLMIntentClassificationSchema.parse succeeds on o: intent in the enum,  *)
(* topic a string or not there (null is neither), confidence in [0, 1]     *)
LLMIntentClassificationSchema(o) ==
    /\ o.intent \in Intent
    /\ o.topic # Null
    /\ o.confidence \in Scores \cup {"0.9"}

(* classifyIntent: the error it throws on this answer, or Null *)
classifyIntent(resp) ==
    CASE resp.kind = "throw" -> "transport"
      [] resp.kind = "notext" -> "No text response from Claude intent classifier"
      [] ~resp.json -> "SyntaxError"
      [] ~LLMIntentClassificationSchema(resp) -> "ZodError"
      [] OTHER -> Null

\* mutant of INTENT_TO_AGENT: learn and assess are exchanged
INTENT_TO_AGENT_SWAPPED(intent) ==
    CASE intent = "research" -> "scout"
      [] intent = "create_content" -> "content_creator"
      [] intent = "assess" -> "learning"
      [] intent = "learn" -> "assessment"
      [] OTHER -> Null

(* INTENT_TO_AGENT[intent] ?? null *)
INTENT_TO_AGENT(intent) ==
    CASE intent = "research" -> "scout"
      [] intent = "create_content" -> "content_creator"
      [] intent = "assess" -> "assessment"
      [] intent = "learn" -> "learning"
      [] OTHER -> Null

(* if (topic): undefined and the empty string are falsy *)
Truthy(v) == v \notin {Absent, ""}

\* mutant of HasTarget: the router dispatches whatever the target is
HasTargetAlways(target) == TRUE

(* if (targetAgent) *)
HasTarget(target) == target # Null

(* the payload and the message handleUserMessage dispatches *)
RouterPayload(q) ==
    [EmptyPayload EXCEPT !.intent = q.intent, !.topic = q.topic,
                         !.topic_id = q.topicId, !.user_id = q.userId,
                         !.raw_input = q.message]

RouterMessage(q) == FollowUp("master", q.target, "JobDispatch", RouterPayload(q))

(* buildResponse: the sentence of the intent about the topic, or the     *)
(* clarification for the unknown intent                                   *)
Clarification == [kind |-> "unknown", topicLabel |-> Absent]

buildResponse(intent, topic, targetAgent) ==
    IF intent = "unknown" THEN Clarification
    ELSE [kind |-> intent,
          topicLabel |-> IF topic = Absent THEN "your topic" ELSE topic]

(* the row master_agent_log gets *)
AuditRow(q) ==
    [user_id |-> q.userId, raw_input |-> q.message, intent |-> q.intent,
     dispatched_to |-> q.target,
     response |-> buildResponse(q.intent, q.topic, q.target),
     agent_message_id |-> q.msgId]

\* mutant of AfterAudit: the error of the insert is thrown
AfterAuditThrows(ok) == IF ok THEN "returned" ELSE "raised"

(* await db.from("master_agent_log").insert(...): the answer is not       *)
(* looked at, the function goes on to return                              *)
AfterAudit(ok) == "returned"

SetRq(r, q) == rq' = [rq EXCEPT ![r] = q]

(* handleUserMessage({ userId, message }) up to the answer of            *)
(* classifyIntent, resp being what Claude answers                         *)
Classify(r, u, m, resp) ==
    LET q == [rq[r] EXCEPT !.userId = u, !.message = m, !.llm = resp] IN
    IF classifyIntent(resp) # Null
    THEN SetRq(r, [q EXCEPT !.pc = "raised", !.err = classifyIntent(resp)])
    ELSE SetRq(r, [q EXCEPT !.intent = resp.intent, !.topic = resp.topic,
                            !.confidence = resp.confidence,
                            !.pc = IF Truthy(resp.topic) THEN "resolve"
                                   ELSE "dispatch"])

(* a call arrives; const classification = await classifyIntent(message) *)
RClassify(r) ==
    /\ rq[r].pc = "new"
    /\ \E u \in UserIds, m \in Messages, resp \in LLMResponses : Classify(r, u, m, resp)
    /\ UNCHANGED <<msgs, now, lastOp, claimWins, workerVars, auditLog, calc, chat>>

(* the topics lookup; without a row (or with an error) topicId stays      *)
(* undefined                                                              *)
RResolve(r) ==
    /\ rq[r].pc = "resolve"
    /\ \E dbOk \in BOOLEAN :
         SetRq(r, [rq[r] EXCEPT !.pc = "dispatch",
                                !.topicId = IF dbOk THEN TopicLookup(rq[r].topic)
                                            ELSE Absent])
    /\ UNCHANGED <<msgs, now, lastOp, claimWins, workerVars, auditLog, calc, chat>>

(* const targetAgent = INTENT_TO_AGENT[intent] ?? null;                   *)
(* if (targetAgent) { dispatched = await dispatchMessage(...) }           *)
RDispatch(r) ==
    /\ rq[r].pc = "dispatch"
    /\ LET q == [rq[r] EXCEPT !.target = INTENT_TO_AGENT(rq[r].intent)] IN
         IF ~HasTarget(q.target)
         THEN /\ SetRq(r, [q EXCEPT !.pc = "audit"])
              /\ UNCHANGED msgs
         ELSE /\ Len(msgs) < MaxMsgs
              /\ IF ~AgentMessageInsertSchema(RouterMessage(q))
                 THEN /\ SetRq(r, [q EXCEPT !.pc = "raised", !.err = "ZodError"])
                      /\ UNCHANGED msgs
                 ELSE \E storeOk \in BOOLEAN :
                        IF ~storeOk
                        THEN /\ SetRq(r, [q EXCEPT !.pc = "raised",
                                                   !.err = "Context Bus dispatch failed"])
                             /\ UNCHANGED msgs
                        ELSE /\ msgs' = InsertRow(msgs, RouterMessage(q), now)
                             /\ SetRq(r, [q EXCEPT !.pc = "audit",
                                                   !.msgId = msgs'[Len(msgs')].id])
    /\ UNCHANGED <<now, lastOp, claimWins, workerVars, auditLog, calc, chat>>

(* the insert into master_agent_log (user_id is a UUID column), then      *)
(* return { intent, topic, confidence, dispatchedTo, agentMessageId,      *)
(* response }                                                             *)
RAudit(r) ==
    /\ rq[r].pc = "audit"
    /\ \E dbOk \in BOOLEAN :
         LET q == rq[r]
             ok == dbOk /\ IsUuid(q.userId)
         IN  /\ auditLog' = IF ok THEN Append(auditLog, AuditRow(q)) ELSE auditLog
             /\ SetRq(r, [q EXCEPT
                    !.audits = @ + 1, !.auditOk = ok,
                    !.pc = AfterAudit(ok),
                    !.err = IF AfterAudit(ok) = "raised" THEN "audit" ELSE @,
                    !.result = IF AfterAudit(ok) = "raised" THEN @
                               ELSE [intent |-> q.intent, topic |-> q.topic,
                                     confidence |-> q.confidence,
                                     dispatchedTo |-> q.target,
                                     agentMessageId |-> q.msgId,
                                     response |-> buildResponse(q.intent, q.topic,
                                                                q.target)]])
    /\ UNCHANGED <<msgs, now, lastOp, claimWins, workerVars, calc, chat>>

NextRouter ==
    \E r \in Requests : RClassify(r) \/ RResolve(r) \/ RDispatch(r) \/ RAudit(r)

SpecRouter == Init /\ [][NextRouter]_vars

(***************************************************************************)
(* Assessment scorer.  scoreMCQ, determineOutcome and                      *)
(* determineRecommendation, each applied to the quizzes of at most         *)
(* MaxQuestions questions.  A question is its correct option, an answer    *)
(* the option the learner gave; a score is the fraction num / den.         *)
(***************************************************************************)
MaxQuestions == 5

CorrectOptions == {"A", "C"}

GivenOptions == {"A", "C", "D"}

SeqsUpTo(S, n) == UNION {[1..k -> S] : k \in 0..n}

(* the graded answers: one entry per answer given, correct when it equals *)
(* the answer of the question at the same position                        *)
Graded(answers, questions) ==
    [i \in 1..Len(answers) |-> i <= Len(questions) /\ answers[i] = questions[i]]

RECURSIVE CountCorrect(_)
CountCorrect(graded) ==
    IF graded = <<>> THEN 0
    ELSE (IF Head(graded) THEN 1 ELSE 0) + CountCorrect(Tail(graded))

\* mutant of scoreMCQ: the score is taken over the answers that were given
scoreMCQByAnswers(answers, questions) ==
    IF Len(answers) = 0 THEN [num |-> 0, den |-> 1]
    ELSE [num |-> CountCorrect(Graded(answers, questions)), den |-> Len(answers)]

(* scoreMCQ: correct answers / questions, 0 for a quiz without questions *)
scoreMCQ(answers, questions) ==
    IF Len(questions) = 0 THEN [num |-> 0, den |-> 1]
    ELSE [num |-> CountCorrect(Graded(answers, questions)), den |-> Len(questions)]

\* mutant of determineOutcome: PASS from 0.70 and PARTIAL from 0.40
determineOutcomeLower(score) ==
    IF 10 * score.num >= 7 * score.den THEN "PASS"
    ELSE IF 10 * score.num >= 4 * score.den THEN "PARTIAL"
    ELSE "FAIL"

(* determineOutcome: score >= 0.8 PASS, score >= 0.5 PARTIAL, else FAIL *)
determineOutcome(score) ==
    IF 10 * score.num >= 8 * score.den THEN "PASS"
    ELSE IF 2 * score.num >= score.den THEN "PARTIAL"
    ELSE "FAIL"

determineRecommendation(outcome) ==
    CASE outcome = "PASS" -> "advance"
      [] outcome = "PARTIAL" -> "needs_review"
      [] outcome = "FAIL" -> "needs_remediation"

Quiz(answers, questions) ==
    [fn |-> "score", stage |-> "quiz", answers |-> answers, questions |-> questions,
     score |-> [num |-> 0, den |-> 1], outcome |-> Absent, recommendation |-> Absent]

InitScore ==
    /\ Quiet
    /\ entities = NoEntities
    /\ calc \in {Quiz(a, q) : a \in SeqsUpTo(GivenOptions, MaxQuestions),
                              q \in SeqsUpTo(CorrectOptions, MaxQuestions)}

busVars == <<msgs, now, lastOp, claimWins>>

ScoreMCQ ==
    /\ calc.stage = "quiz"
    /\ calc' = [calc EXCEPT !.stage = "scored",
                            !.score = scoreMCQ(calc.answers, calc.questions)]
    /\ UNCHANGED <<busVars, workerVars, routerVars, chat>>

DetermineOutcome ==
    /\ calc.stage = "scored"
    /\ calc' = [calc EXCEPT !.stage = "outcome",
                            !.outcome = determineOutcome(calc.score)]
    /\ UNCHANGED <<busVars, workerVars, routerVars, chat>>

DetermineRecommendation ==
    /\ calc.stage = "outcome"
    /\ calc' = [calc EXCEPT !.stage = "recommended",
                            !.recommendation = determineRecommendation(calc.outcome)]
    /\ UNCHANGED <<busVars, workerVars, routerVars, chat>>

NextScore == ScoreMCQ \/ DetermineOutcome \/ DetermineRecommendation

SpecScore == InitScore /\ [][NextScore]_vars

(***************************************************************************)
(* Learning sequencer.  selectNextContent on the user_progress rows of one *)
(* learner and topic and on content_items of at most MaxItems lessons,     *)
(* both read as the tables hold them, and getNextDepth applied to the      *)
(* recommended depth, up to MaxAdvance times.                              *)
(***************************************************************************)
MaxItems == 2

MaxAdvance == 3

ProgressStatus == {"not_started", "in_progress", "completed", "needs_remediation"}

Skills == {"RAG", "Prompting"}

SeqTopics == {"t1", "t2"}

RowDepths == {"beginner", "advanced"}

(* content_items of the topics: ids in order of insertion *)
ItemTables ==
    UNION {{[i \in 1..k |-> [id |-> ContentIds[i], topic_id |-> f[i].topic_id,
                              skill |-> f[i].skill, depth |-> f[i].depth,
                              created_at |-> f[i].created_at]] :
              f \in [1..k -> [topic_id : SeqTopics, skill : Skills,
                              depth : RowDepths, created_at : 0..1]]} :
           k \in 0..MaxItems}

(* user_progress of learner u1 on topic t1, most recently updated first:  *)
(* at most one row for a skill (the table's unique key)                   *)
ProgressTables ==
    LET row == [user_id : {"u1"}, topic_id : {"t1"}, skill : Skills,
                status : ProgressStatus, current_depth : RowDepths]
    IN  {<<>>} \cup {<<r>> : r \in row}
               \cup {p \in row \X row : p[1].skill # p[2].skill}

\* mutant of getNextDepth: after advanced the learner starts over
getNextDepthWraps(currentDepth) ==
    CASE currentDepth = "beginner" -> "intermediate"
      [] currentDepth = "intermediate" -> "advanced"
      [] currentDepth = "advanced" -> "beginner"

getNextDepth(currentDepth) ==
    CASE currentDepth = "beginner" -> "intermediate"
      [] currentDepth = "intermediate" -> "advanced"
      [] currentDepth = "advanced" -> "advanced"

InitSequencer ==
    /\ Quiet
    /\ \E items \in ItemTables, rows \in ProgressTables :
          entities = [NoEntities EXCEPT !.content_items = items,
                                        !.user_progress = rows]
    /\ calc = [fn |-> "sequence", stage |-> "start", user |-> "u1", topic |-> "t1",
               out |-> NothingAvailable, depth |-> "beginner", calls |-> 0]

(* const recommendation = await selectNextContent(userId, topicId) *)
SelectNextContent ==
    /\ calc.stage = "start"
    /\ \E rec \in selectNextContent(entities, calc.user, calc.topic) :
          calc' = [calc EXCEPT !.stage = "selected", !.out = rec, !.depth = rec.depth]
    /\ UNCHANGED <<busVars, workerVars, routerVars, chat>>

(* getNextDepth(depth), on the depth of the recommendation and then on    *)
(* its own result                                                         *)
GetNextDepth ==
    /\ calc.stage = "selected"
    /\ calc.calls < MaxAdvance
    /\ calc' = [calc EXCEPT !.depth = getNextDepth(calc.depth), !.calls = @ + 1]
    /\ UNCHANGED <<busVars, workerVars, routerVars, chat>>

NextSequencer == SelectNextContent \/ GetNextDepth

SpecSequencer == InitSequencer /\ [][NextSequencer]_vars

(***************************************************************************)
(* Scout and its cache.  One Scout worker, research jobs dispatched while  *)
(* the clock advances in steps of 30 minutes, on a skill_map table that    *)
(* may hold the results of earlier research.                               *)
(***************************************************************************)
MaxCacheClock == 3

(* skill_map when the jobs arrive: nothing, or maps generated at time 0 *)
SkillMapTables ==
    LET map(i, t) == [id |-> SkillMapIds[i], topic_id |-> t, generated_at |-> 0]
    IN  {<<>>, <<map(1, "t1")>>, <<map(1, "t2")>>, <<map(1, "t2"), map(2, "t1")>>}

(* research jobs: with the topic id, or with the topic's name only *)
ScoutInputs ==
    {JobInput, [JobInput EXCEPT !.payload = [JobPayload EXCEPT !.topic_id = Absent]]}

InitScout ==
    /\ Quiet
    /\ \E sm \in SkillMapTables : entities = [NoEntities EXCEPT !.skill_map = sm]
    /\ calc = NoCalc

ScoutDispatch ==
    \E input \in ScoutInputs, storeOk \in BOOLEAN :
        /\ Len(msgs) < MaxMsgs
        /\ AgentMessageInsertSchema(input)
        /\ storeOk
        /\ msgs' = InsertRow(msgs, input, now)
        /\ UNCHANGED <<now, lastOp, claimWins, workerVars, routerVars, calc, chat>>

(* 30 minutes pass *)
HalfHour ==
    /\ now < MaxCacheClock
    /\ now' = now + 1
    /\ UNCHANGED <<msgs, lastOp, claimWins, workerVars, routerVars, calc, chat>>

ScoutStep(w) ==
    \/ WPoll(w) \/ WClaim(w) \/ WResolve(w) \/ WCache(w) \/ WWork(w) \/ WPersist(w)
    \/ WDispatch(w) \/ WComplete(w) \/ WFail(w)

NextScout == ScoutDispatch \/ HalfHour \/ ScoutStep(1)

SpecScout == InitScout /\ [][NextScout]_vars

(***************************************************************************)
(* POST /api/chat (SpecChat).  The route validates the body, calls         *)
(* handleUserMessage and, when the router dispatched to scout, polls the   *)
(* scout mailbox with limit 1, calls the Scout handleMessage in-process on *)
(* the message it finds there under the dispatched id, polls the master    *)
(* mailbox with limit 10 and answers with the payload of the first         *)
(* SkillMapReady from scout for the user.  The request is request 1 of the *)
(* router and its in-process handler is worker 1.  Nothing claims the rows *)
(* of the master mailbox, so the replies to earlier requests stay pending. *)
(***************************************************************************)
(* what Claude answers to the chat message *)
ChatResponses ==
    {LLMText("research", "Agentic AI", "0.9"), LLMText("learn", "Agentic AI", "0.9"),
     [NoResponse EXCEPT !.kind = "throw"]}

(* a research job dispatched earlier and not handled yet *)
OldJob == InsertRow(<<>>, JobInput, 0)

(* the SkillMapReady that answered an earlier research request of user u *)
OldReply(u) ==
    InsertRow(<<>>, FollowUp("scout", "master", "SkillMapReady",
                             [EmptyPayload EXCEPT !.topic = "Agentic AI",
                                                  !.topic_id = "t1",
                                                  !.ref_id = "s1",
                                                  !.user_id = u]), 0)

(* the pending rows of agent_messages when the request arrives *)
ChatTables == {<<>>, OldJob, OldReply("u1"), OldReply("u2")}

InitChat ==
    /\ chat = NoChat
    /\ \E ms \in ChatTables :
          /\ msgs = ms
          /\ entities =
                IF ms # <<>> /\ ms[1].to_agent = "master"
                THEN [NoEntities EXCEPT !.skill_map =
                        <<[id |-> "s1", topic_id |-> "t1", generated_at |-> 0]>>]
                ELSE NoEntities
    /\ now = 0
    /\ lastOp = NoOp
    /\ claimWins = [id \in CallIds |-> 0]
    /\ wk = [w \in Workers |-> IdleWorker]
    /\ hist = [id \in 1..MaxWork |-> NoHist]
    /\ rq = [r \in Requests |-> NewRequest]
    /\ auditLog = <<>>
    /\ calc = NoCalc

(* return NextResponse.json(...) with this status and agentResult *)
Respond(http, agentResult, replyId) ==
    chat' = [chat EXCEPT !.pc = "responded", !.http = http,
                         !.agentResult = agentResult, !.replyId = replyId]

(* ChatRequestSchema.parse(body), then handleUserMessage up to the answer *)
(* of the classifier; a userId that is no UUID is answered with 400       *)
ChatPost ==
    /\ chat.pc = "new"
    /\ rq[1].pc = "new"
    /\ \E u \in UserIds, m \in Messages, resp \in ChatResponses :
         IF ~IsUuid(u)
         THEN /\ chat' = [chat EXCEPT !.pc = "responded", !.userId = u, !.http = 400]
              /\ UNCHANGED rq
         ELSE /\ chat' = [chat EXCEPT !.pc = "route", !.userId = u]
              /\ Classify(1, u, m, resp)
    /\ UNCHANGED <<msgs, now, lastOp, claimWins, workerVars, auditLog, calc>>

(* the router did not dispatch to scout (200), or handleUserMessage threw *)
(* (500)                                                                  *)
ChatRespond ==
    /\ chat.pc = "route"
    /\ \/ /\ rq[1].pc = "raised"
          /\ Respond(500, Absent, NoId)
       \/ /\ rq[1].pc = "returned"
          /\ ~(rq[1].result.dispatchedTo = "scout" /\ rq[1].result.agentMessageId # NoId)
          /\ Respond(200, Absent, NoId)
    /\ UNCHANGED <<msgs, now, lastOp, claimWins, workerVars, routerVars, calc>>

(* const pending = await pollMessages("scout", 1);                        *)
(* const scoutMsg = pending.find((m) => m.id === result.agentMessageId);  *)
(* if (scoutMsg) handleScoutMessage(scoutMsg) is entered, else the route  *)
(* answers; an error of the poll is caught and the route answers          *)
ChatPollScout ==
    /\ chat.pc = "route"
    /\ rq[1].pc = "returned"
    /\ rq[1].result.dispatchedTo = "scout" /\ rq[1].result.agentMessageId # NoId
    /\ \E storeOk \in BOOLEAN :
         IF ~storeOk
         THEN /\ Respond(200, Absent, NoId)
              /\ UNCHANGED wk
         ELSE \E pending \in pollMessages(msgs, "scout", 1) :
                IF \E k \in 1..Len(pending) :
                      msgs[pending[k]].id = rq[1].result.agentMessageId
                THEN /\ chat' = [chat EXCEPT !.pc = "handle",
                                             !.scoutMsg = rq[1].result.agentMessageId]
                     /\ Set(1, [IdleWorker EXCEPT !.pc = "claim",
                                                  !.cur = rq[1].result.agentMessageId])
                ELSE /\ Respond(200, Absent, NoId)
                     /\ UNCHANGED wk
    /\ UNCHANGED <<msgs, now, lastOp, claimWins, hist, entities, routerVars, calc>>

(* handleScoutMessage has ended: it returned (it completed the message or *)
(* lost the claim) or it threw                                            *)
HandlerEnded == chat.pc = "handle" /\ wk[1].pc = "idle"

HandlerReturned ==
    hist[chat.scoutMsg].run = "returned" \/ hist[chat.scoutMsg].noops > 0

(* (m) => m.message_type === "SkillMapReady" && m.from_agent === "scout"  *)
(*        && m.payload.user_id === userId                                 *)
IsSkillMapReadyFor(m, userId) ==
    /\ m.message_type = "SkillMapReady"
    /\ m.from_agent = "scout"
    /\ m.payload.user_id = userId

(* replies.find(...): the position of the first match in the list, or 0 *)
FindReply(replies, userId) ==
    LET S == {k \in 1..Len(replies) : IsSkillMapReadyFor(msgs[replies[k]], userId)}
    IN  IF S = {} THEN 0 ELSE CHOOSE k \in S : \A j \in S : k <= j

(* const replies = await pollMessages("master", 10); the first            *)
(* SkillMapReady of the user becomes agentResult; an error of the poll is *)
(* caught                                                                 *)
ChatPollMaster ==
    /\ HandlerEnded
    /\ HandlerReturned
    /\ \E storeOk \in BOOLEAN :
         IF ~storeOk THEN Respond(200, Absent, NoId)
         ELSE \E replies \in pollMessages(msgs, "master", DefaultLimit) :
                LET k == FindReply(replies, chat.userId) IN
                IF k = 0 THEN Respond(200, Absent, NoId)
                ELSE Respond(200, msgs[replies[k]].payload, msgs[replies[k]].id)
    /\ UNCHANGED <<msgs, now, lastOp, claimWins, workerVars, routerVars, calc>>

(* catch { }: the error handleScoutMessage threw is swallowed *)
ChatCatch ==
    /\ HandlerEnded
    /\ ~HandlerReturned
    /\ Respond(200, Absent, NoId)
    /\ UNCHANGED <<msgs, now, lastOp, claimWins, workerVars, routerVars, calc>>

(* the in-process call of the Scout handleMessage *)
ChatHandler ==
    \/ WClaim(1) \/ WResolve(1) \/ WCache(1) \/ WWork(1) \/ WPersist(1)
    \/ WDispatch(1) \/ WComplete(1) \/ WFail(1)

NextChat ==
    \/ ChatPost \/ RResolve(1) \/ RDispatch(1) \/ RAudit(1)
    \/ ChatRespond \/ ChatPollScout \/ ChatHandler \/ ChatPollMaster \/ ChatCatch
    \/ HalfHour

SpecChat == InitChat /\ [][NextChat]_vars


(***************************************************************************)
(* Research pipeline.  researchTopic: searchTavily and searchPerplexity in *)
(* parallel (Promise.all), then synthesizeSkillMap on the joined texts.    *)
(* A source is in one of SourceEnv: no API key, a good answer, an answer   *)
(* without content, HTTP 500, a network failure (fetch rejects), an abort  *)
(* (fetch rejects with AbortError).                                        *)
(***************************************************************************)
Sources == {"tavily", "perplexity"}

SourceEnv == {"nokey", "ok", "nocontent", "http500", "network", "abort"}

(* what the LLM answers to the synthesis prompt *)
SynthesisEnv == {"valid", "notext", "invalid"}

UnavailableMarker == [tavily |-> "[Tavily unavailable]",
                      perplexity |-> "[Perplexity unavailable]"]

ErrorMarker == [tavily |-> "[Tavily error: 500]",
                perplexity |-> "[Perplexity error: 500]"]

EmptyMarker == [tavily |-> "[No results]", perplexity |-> "[No Perplexity response]"]

SourceData == [tavily |-> "Answer: a / Sources: s", perplexity |-> "content"]

Pending == [state |-> "pending", value |-> Absent]

Returned(v) == [state |-> "returned", value |-> v]

Raised(e) == [state |-> "raised", value |-> e]

(* searchTavily / searchPerplexity: the two have the same shape.  fetch   *)
(* is awaited outside any try block, so its rejection leaves the function *)
search(source, env) ==
    CASE env = "nokey" -> Returned(UnavailableMarker[source])
      [] env = "network" -> Raised("ECONNREFUSED")
      [] env = "abort" -> Raised("AbortError")
      [] env = "http500" -> Returned(ErrorMarker[source])
      [] env = "nocontent" -> Returned(EmptyMarker[source])
      [] env = "ok" -> Returned(SourceData[source])

(* synthesizeSkillMap(topic, researchData) *)
synthesizeSkillMap(llm) ==
    CASE llm = "valid" -> Returned("skillmap")
      [] llm = "notext" -> Raised("No text response from Claude skill map synthesis")
      [] llm = "invalid" -> Raised("ZodError")

InitResearch ==
    /\ Quiet
    /\ entities = NoEntities
    /\ \E t \in SourceEnv, p \in SourceEnv, llm \in SynthesisEnv :
          calc = [fn |-> "research", env |-> [tavily |-> t, perplexity |-> p],
                  llm |-> llm, found |-> [src \in Sources |-> Pending],
                  stage |-> "searching", synthesized |-> 0, out |-> Pending]

(* one of the two searches settles *)
Search(source) ==
    /\ calc.stage = "searching"
    /\ calc.found[source] = Pending
    /\ calc' = [calc EXCEPT !.found[source] = search(source, calc.env[source])]
    /\ UNCHANGED <<busVars, workerVars, routerVars, chat>>

SearchTavily == Search("tavily")

SearchPerplexity == Search("perplexity")

(* await Promise.all([...]): rejects with the first rejection, resolves   *)
(* when both have; researchTopic then joins the two texts, whatever they  *)
(* are                                                                    *)
AwaitBoth ==
    /\ calc.stage = "searching"
    /\ \/ \E src \in Sources :
            /\ calc.found[src].state = "raised"
            /\ calc' = [calc EXCEPT !.stage = "raised", !.out = calc.found[src]]
       \/ /\ \A src \in Sources : calc.found[src].state = "returned"
          /\ calc' = [calc EXCEPT !.stage = "combined"]
    /\ UNCHANGED <<busVars, workerVars, routerVars, chat>>

(* return synthesizeSkillMap(topic, combinedResearch) *)
Synthesize ==
    /\ calc.stage = "combined"
    /\ LET r == synthesizeSkillMap(calc.llm) IN
       calc' = [calc EXCEPT !.stage = r.state, !.out = r, !.synthesized = @ + 1]
    /\ UNCHANGED <<busVars, workerVars, routerVars, chat>>

NextResearch == SearchTavily \/ SearchPerplexity \/ AwaitBoth \/ Synthesize

SpecResearch == InitResearch /\ [][NextResearch]_vars

(***************************************************************************)
(* Properties of the bus client (SpecBus).                                 *)
(***************************************************************************)
(* C1: claim exclusivity.  Over all claim(id) calls ever made on a message,
   in any interleaving, at most one returns the record; the call that
   returns the record leaves the message processing (never a partial
   transition); a call returns the no-op value null only when the message
   is no longer pending, so of N calls on a pending message the first one
   wins and the other N-1 get null. *)
ClaimExclusivity ==
    /\ \A id \in CallIds : claimWins[id] <= 1
    /\ (lastOp.op = "claim" /\ lastOp.ret = "record") =>
            /\ Cardinality(RowsWithId(msgs, lastOp.id)) = 1
            /\ Row(lastOp.id).status = "processing"
            /\ claimWins[lastOp.id] = 1
    /\ (lastOp.op = "claim" /\ lastOp.ret = "null") =>
            \A i \in RowsWithId(msgs, lastOp.id) : msgs[i].status # "pending"

(* C1 witness: a claim has won the message and a later claim of the same
   message got null while the winner still holds it *)
ClaimLostWitness ==
    /\ lastOp.op = "claim" /\ lastOp.ret = "null"
    /\ lastOp.id \in Ids(msgs)
    /\ claimWins[lastOp.id] = 1
    /\ Row(lastOp.id).status = "processing"

Rank(status) ==
    CASE status = "pending" -> 0
      [] status = "processing" -> 1
      [] status = "done" -> 2
      [] status = "failed" -> 2

(* C3: lifecycle monotonicity.  In every step the status of every message
   either stays what it is or moves forward along
   pending -> processing -> {done, failed}: never back to pending, never
   from done to processing, never between done and failed. *)
LifecycleMonotonic ==
    [][\A i \in 1..Len(msgs) :
          \/ msgs'[i].status = msgs[i].status
          \/ Rank(msgs[i].status) < Rank(msgs'[i].status)]_vars

(* C4: terminal states are immutable.  No step changes the status or the
   error of a message that is done or failed. *)
TerminalImmutable ==
    [][\A i \in 1..Len(msgs) :
          msgs[i].status \in {"done", "failed"} =>
              /\ msgs'[i].status = msgs[i].status
              /\ msgs'[i].error_message = msgs[i].error_message]_vars

(* C8: every message dispatch creates is stored pending, whatever the
   input, and its id differs from the id of every other message. *)
DispatchStoresPending ==
    (lastOp.op = "dispatch" /\ lastOp.ret = "record") =>
        /\ Cardinality(RowsWithId(msgs, lastOp.id)) = 1
        /\ Row(lastOp.id).status = "pending"

(* the schema the claim takes to be registered for a message type *)
PayloadFits(type, payload) ==
    CASE type = "JobDispatch" -> JobDispatchPayloadSchema(payload)
      [] type = "GapSignal" -> GapSignalPayloadSchema(payload)
      [] OTHER -> TRUE

EnvelopeBad(input) ==
    \/ input.from_agent \notin AgentName
    \/ input.to_agent \notin AgentName
    \/ input.message_type \notin MessageType
    \/ input.pkind # "object"

(* C9 as claimed: dispatch rejects, and inserts nothing for, every input
   with from, to or type outside its enumeration or with a payload that
   does not satisfy the schema of its type. *)
DispatchRejectsBadPayload ==
    (/\ lastOp.op = "dispatch"
     /\ \/ EnvelopeBad(lastOp.input)
        \/ ~PayloadFits(lastOp.input.message_type, lastOp.input.payload))
    => (lastOp.ret = "ValidationError" /\ Len(msgs) = lastOp.n)

(* C9 as amended: dispatch rejects with a validation error, and inserts
   nothing for, every input with from, to or type outside its enumeration
   or with a payload that is not an object; every stored row has from, to
   and type inside the enumerations. *)
DispatchRejectsBadEnvelope ==
    /\ (lastOp.op = "dispatch" /\ EnvelopeBad(lastOp.input))
            => (lastOp.ret = "ValidationError" /\ Len(msgs) = lastOp.n)
    /\ \A i \in 1..Len(msgs) :
            /\ msgs[i].from_agent \in AgentName
            /\ msgs[i].to_agent \in AgentName
            /\ msgs[i].message_type \in MessageType

(* C9 witness: an input addressed to no known agent has been rejected
   while the table already holds a row *)
DispatchRejectedWitness ==
    /\ lastOp.op = "dispatch"
    /\ lastOp.input.to_agent \notin AgentName
    /\ lastOp.ret = "ValidationError"
    /\ Len(msgs) >= 1

(* C10: poll(agent, limit) returns exactly the min(limit, k) oldest of the
   k pending messages addressed to agent, oldest first: only pending
   messages of that agent, none twice, by ascending created_at, and no
   message left out is older than one returned, so a newer message is
   never returned before or without an older one. *)
PollOldestFirst ==
    (lastOp.op = "poll" /\ lastOp.ret = "rows") =>
        LET r == lastOp.result
            k == Cardinality({i \in 1..Len(msgs) :
                                 /\ msgs[i].to_agent = lastOp.agent
                                 /\ msgs[i].status = "pending"})
            got == {r[x] : x \in 1..Len(r)}
        IN  /\ Len(r) = Min(lastOp.limit, k)
            /\ Cardinality(got) = Len(r)
            /\ \A i \in got : /\ msgs[i].to_agent = lastOp.agent
                              /\ msgs[i].status = "pending"
            /\ \A x, y \in 1..Len(r) :
                    x < y => msgs[r[x]].created_at <= msgs[r[y]].created_at
            /\ \A m1, m2 \in 1..Len(msgs) :
                    (/\ msgs[m1].to_agent = lastOp.agent /\ msgs[m1].status = "pending"
                     /\ msgs[m2].to_agent = lastOp.agent /\ msgs[m2].status = "pending"
                     /\ msgs[m1].created_at < msgs[m2].created_at
                     /\ m2 \in got)
                    => (m1 \in got /\ \E x, y \in 1..Len(r) :
                                          x < y /\ r[x] = m1 /\ r[y] = m2)

(* C10 witness: two pending messages of the polled agent, created at
   different times, and a poll with limit 1 that returned the older one *)
PollOldestWitness ==
    /\ lastOp.op = "poll" /\ lastOp.ret = "rows" /\ lastOp.limit = 1
    /\ \E m1, m2 \in 1..Len(msgs) :
          /\ msgs[m1].to_agent = lastOp.agent /\ msgs[m1].status = "pending"
          /\ msgs[m2].to_agent = lastOp.agent /\ msgs[m2].status = "pending"
          /\ msgs[m1].created_at < msgs[m2].created_at
          /\ lastOp.result = <<m1>>

(* the pending rows addressed to an agent have pairwise different created_at *)
NoTies(agent) ==
    \A i, j \in PollFilter(msgs, agent) :
        i # j => msgs[i].created_at # msgs[j].created_at

(* two polls in a row, of the same mailbox with the same limit *)
SamePollAgain ==
    /\ lastOp.op = "poll" /\ lastOp.ret = "rows"
    /\ lastOp'.op = "poll" /\ lastOp'.ret = "rows"
    /\ lastOp'.agent = lastOp.agent /\ lastOp'.limit = lastOp.limit

(* C11 as claimed: a poll changes no field of any message, and a poll that
   follows a poll of the same mailbox with nothing in between returns the
   same list *)
PollReadOnlySameList ==
    [][lastOp'.op = "poll" =>
          /\ msgs' = msgs
          /\ SamePollAgain => lastOp'.result = lastOp.result]_vars

(* C11 as amended: a poll changes no field of any message, and a poll that
   follows a poll of the same mailbox with nothing in between returns the
   same list when the pending messages of the mailbox have different
   created_at *)
PollReadOnly ==
    [][lastOp'.op = "poll" =>
          /\ msgs' = msgs
          /\ (SamePollAgain /\ NoTies(lastOp.agent)) =>
                    lastOp'.result = lastOp.result]_vars

(* C11 witness: a poll has returned two pending messages created at
   different times, and both are still pending *)
PollReadOnlyWitness ==
    /\ lastOp.op = "poll" /\ lastOp.ret = "rows"
    /\ Len(lastOp.result) = 2
    /\ msgs[lastOp.result[1]].created_at < msgs[lastOp.result[2]].created_at
    /\ \A x \in 1..2 : msgs[lastOp.result[x]].status = "pending"

(* C12: a claim of a message that is processing, done or failed returns
   null and changes no row; and a processing message leaves processing only
   by a completeMessage or failMessage of that message, so a message whose
   claimant never calls either stays processing and is never claimed again *)
ClaimOnlyFromPending ==
    [][/\ (/\ lastOp'.op = "claim" /\ lastOp'.ret # "StoreError"
           /\ lastOp'.id \in Ids(msgs)
           /\ Row(lastOp'.id).status # "pending")
          => (lastOp'.ret = "null" /\ msgs' = msgs /\ claimWins' = claimWins)
       /\ \A i \in 1..Len(msgs) :
            (msgs[i].status = "processing" /\ msgs'[i].status # "processing")
            => (lastOp'.op \in {"complete", "fail"} /\ lastOp'.id = msgs[i].id)]_vars

(* C12 witness: a claim of a failed message has returned null, after the
   clock moved on *)
ClaimTerminalWitness ==
    /\ lastOp.op = "claim" /\ lastOp.ret = "null"
    /\ lastOp.id \in Ids(msgs)
    /\ Row(lastOp.id).status = "failed"
    /\ now = MaxClock

(* C13: completeMessage sets the status of the message to done and touches
   nothing else (its error, the other messages), and a second
   completeMessage of the same message changes nothing *)
CompleteIdempotent ==
    [][(lastOp'.op = "complete" /\ lastOp'.ret = "void") =>
          /\ Len(msgs') = Len(msgs)
          /\ \A i \in 1..Len(msgs) :
                msgs'[i] = IF msgs[i].id = lastOp'.id
                           THEN [msgs[i] EXCEPT !.status = "done"]
                           ELSE msgs[i]
          /\ completeMessage(msgs', lastOp'.id) = msgs']_vars

(* C13 witness: a message that was claimed has been completed: it is done
   and has no error *)
CompleteWitness ==
    /\ lastOp.op = "complete" /\ lastOp.ret = "void"
    /\ lastOp.id \in Ids(msgs)
    /\ claimWins[lastOp.id] = 1
    /\ Row(lastOp.id).status = "done"
    /\ Row(lastOp.id).error_message = Null
    /\ Len(msgs) = 2

(* C14: failMessage, whatever the status of the message, leaves it failed
   with the reason given as its error and changes no other message *)
FailFromAnyStatus ==
    [][(lastOp'.op = "fail" /\ lastOp'.ret = "void") =>
          /\ Len(msgs') = Len(msgs)
          /\ \A i \in 1..Len(msgs) :
                msgs'[i] = IF msgs[i].id = lastOp'.id
                           THEN [msgs[i] EXCEPT !.status = "failed",
                                                !.error_message = lastOp'.reason]
                           ELSE msgs[i]]_vars

(* C14 witness: a message nobody ever claimed has been failed, next to a
   message that is not failed *)
FailWitness ==
    /\ lastOp.op = "fail" /\ lastOp.ret = "void"
    /\ lastOp.id \in Ids(msgs)
    /\ claimWins[lastOp.id] = 0
    /\ Row(lastOp.id).status = "failed"
    /\ Row(lastOp.id).error_message = lastOp.reason
    /\ \E i \in 1..Len(msgs) : msgs[i].id # lastOp.id /\ msgs[i].status = "done"

(* C15: a message has an error only when its status is failed *)
ErrorOnlyWhenFailed ==
    \A i \in 1..Len(msgs) :
        msgs[i].error_message # Null => msgs[i].status = "failed"

(* C31: no step of the bus removes a message or changes what dispatch
   stored in it: every row stays where it is with its id, from_agent,
   to_agent, message_type, payload and created_at, so the set of message
   ids only grows; only status and error_message change, and only in a
   claim, complete or fail *)
MessagesKept ==
    [][/\ Len(msgs') >= Len(msgs)
       /\ Ids(msgs) \subseteq Ids(msgs')
       /\ \A i \in 1..Len(msgs) :
             /\ msgs'[i].id = msgs[i].id
             /\ msgs'[i].from_agent = msgs[i].from_agent
             /\ msgs'[i].to_agent = msgs[i].to_agent
             /\ msgs'[i].message_type = msgs[i].message_type
             /\ msgs'[i].payload = msgs[i].payload
             /\ msgs'[i].created_at = msgs[i].created_at
             /\ msgs'[i] # msgs[i] => lastOp'.op \in {"claim", "complete", "fail"}]_vars

(* C31 witness: after the clock advanced, the first message has been
   completed and the second failed, and both rows are on the table with
   the ids and the created_at dispatch gave them *)
MessagesKeptWitness ==
    /\ Len(msgs) = 2
    /\ msgs[1].id = 1 /\ msgs[1].status = "done" /\ msgs[1].created_at = 0
    /\ msgs[2].id = 2 /\ msgs[2].status = "failed" /\ msgs[2].created_at = 1
    /\ now = 1

(***************************************************************************)
(* Properties of the workers' handlers (Spec).                             *)
(***************************************************************************)
Handled == 1..MaxWork

(* the workers that are inside the try block of the handling of message id *)
InBody(id) == {w \in Workers : wk[w].cur = id /\ wk[w].pc \notin {"idle", "claim"}}

(* C2: of the workers that poll a mailbox and call handleMessage on the same
   pending message, at most one runs the task body: the body is entered at
   most once, the external capability is called and the entity inserted at
   most once, at most one worker is inside the body, and when no
   invocation won the claim nothing was done for the message *)
ProcessedByOneWorker ==
    \A id \in Handled :
        /\ hist[id].bodies <= 1
        /\ hist[id].ext <= 1
        /\ hist[id].wrote <= 1
        /\ hist[id].fails <= 1
        /\ Cardinality(hist[id].sent) <= 2
        /\ Cardinality(InBody(id)) <= hist[id].bodies
        /\ hist[id].run \in {"returned", "raised", "raisedStore"} => InBody(id) = {}
        /\ hist[id].bodies = 0 =>
                hist[id] = [NoHist EXCEPT !.noops = hist[id].noops]

(* C2 witness: two workers polled the same message, one claim won and its
   handler ran to the end, the other claim returned null *)
ProcessedOnceWitness ==
    \E id \in Handled :
        /\ hist[id].bodies = 1
        /\ hist[id].noops >= 1
        /\ hist[id].ext = 1
        /\ hist[id].run = "returned"

(* C5 as claimed: when a step after a successful claim raises, the handler
   calls failMessage once with the error it caught and raises that same
   error, and a handler that has returned or raised does not leave its
   message in status processing *)
FailedHandlerNeverLeavesProcessing ==
    \A id \in Handled :
        /\ hist[id].run \in {"raised", "raisedStore"} =>
                /\ hist[id].fails = 1
                /\ hist[id].run = "raised"
                /\ Row(id).status = "failed"
                /\ Row(id).error_message \in
                        {"validation", "notfound", "capability", "persist", "store"}
        /\ (id \in Ids(msgs) /\ hist[id].bodies >= 1 /\ InBody(id) = {}) =>
                Row(id).status # "processing"

(* C6: the step in which claimMessage returns null to a handler ends that
   handler without an error and changes nothing else: the table of
   messages, the entities and the record of what was done for the message
   (capability calls, inserts, follow-ups, complete, fail) stay as they are *)
LostClaimHasNoEffect ==
    [][\A id \in Handled :
          hist'[id].noops = hist[id].noops + 1 =>
              /\ msgs' = msgs
              /\ entities' = entities
              /\ hist' = [hist EXCEPT ![id].noops = @ + 1]
              /\ \E w \in Workers :
                    /\ wk[w].pc = "claim" /\ wk[w].cur = id
                    /\ wk' = [wk EXCEPT ![w] = IdleWorker]]_vars

(* C6 witness: a handler's claim has returned null while the message is in
   status processing, as the worker that won the claim set it *)
LostClaimWitness ==
    \E id \in Ids(msgs) :
        /\ hist[id].noops >= 1
        /\ hist[id].run = "body"
        /\ Row(id).status = "processing"
        /\ InBody(id) # {}

(* C7: a message is done only after its handler saved its result and
   dispatched its follow-ups: every done message has at least one follow-up
   on the bus sent by the agent it was addressed to, the entity was
   inserted (or, for Scout, found in the cache; Learning inserts none), and
   nothing is done for the message after completeMessage *)
DoneAfterFollowUp ==
    \A id \in Ids(msgs) :
        Row(id).status = "done" =>
            /\ hist[id].run = "returned"
            /\ InBody(id) = {}
            /\ hist[id].sent # {}
            /\ \A f \in hist[id].sent :
                    /\ f \in Ids(msgs)
                    /\ f > id
                    /\ Row(f).from_agent = Row(id).to_agent
            /\ Row(id).to_agent \in {"content_creator", "assessment"} => hist[id].wrote = 1
            /\ Row(id).to_agent = "scout" =>
                    \/ hist[id].wrote = 1
                    \/ \E f \in hist[id].sent : Row(f).payload.cached = "true"

(* C7 witness: an assessment message is done and both its follow-ups, the
   result and the gap signal, are on the bus *)
DoneAfterFollowUpWitness ==
    \E id \in Ids(msgs) :
        /\ Row(id).status = "done"
        /\ Row(id).to_agent = "assessment"
        /\ Cardinality(hist[id].sent) = 2

(* the follow-ups of message id of the given type, addressed to the agent *)
FollowUpsOf(id, type, to) ==
    {f \in hist[id].sent : Row(f).message_type = type /\ Row(f).to_agent = to}

(* C21: when the Assessment handler has returned, its message is done, it
   has dispatched exactly one AssessmentResult to master, a GapSignal to
   learning exactly when the gaps of the result are not empty, nothing
   else, and every follow-up carries the id of the one assessment_results
   row the handler inserted *)
AssessmentFanOut ==
    \A id \in Ids(msgs) :
        (Row(id).to_agent = "assessment" /\ hist[id].run = "returned") =>
            LET results == FollowUpsOf(id, "AssessmentResult", "master")
                signals == FollowUpsOf(id, "GapSignal", "learning")
            IN  /\ Row(id).status = "done"
                /\ Cardinality(results) = 1
                /\ hist[id].sent = results \cup signals
                /\ \A r \in results :
                      Cardinality(signals) = IF Row(r).payload.gaps # "[]" THEN 1 ELSE 0
                /\ hist[id].wrote = 1
                /\ \A f \in hist[id].sent :
                      \E i \in 1..Len(entities.assessment_results) :
                          LET a == entities.assessment_results[i] IN
                          /\ a.id = Row(f).payload.assessment_result_id
                          /\ a.outcome = Row(f).payload.outcome
                          /\ a.content_item_id = Row(id).payload.content_item_id
                /\ \A f, g \in hist[id].sent :
                      Row(f).payload.assessment_result_id =
                          Row(g).payload.assessment_result_id

(* C21 witness: an Assessment handler has returned after a result with gaps:
   the AssessmentResult and the GapSignal are on the bus and both name the
   saved assessment_results row *)
AssessmentFanOutWitness ==
    \E id \in Ids(msgs) :
        /\ Row(id).to_agent = "assessment" /\ hist[id].run = "returned"
        /\ \E r \in FollowUpsOf(id, "AssessmentResult", "master") :
           \E g \in FollowUpsOf(id, "GapSignal", "learning") :
              /\ Row(r).payload.gaps # "[]"
              /\ Row(g).payload.assessment_result_id = entities.assessment_results[1].id
              /\ Row(r).payload.assessment_result_id = entities.assessment_results[1].id

(* the handler cannot resolve what the message refers to: the payload has
   no content_item_id, or the row it names is not in the table *)
Unresolvable(m) ==
    \/ ResolveKind(m) = "missing"
    \/ ResolveKind(m) = "lookup" /\ ~LookupFinds(m)

(* C29 as claimed: a handler whose payload parses and whose entity cannot
   be resolved throws the not-found error and does nothing else in that
   step; the handler that caught that error leaves its message failed with
   that reason, has raised that error, and has called no capability,
   inserted no entity and dispatched no follow-up for the message *)
UnresolvedEntityIsHardError ==
    [][\A w \in Workers :
          LET id == wk[w].cur IN
          /\ (/\ wk[w].pc = "resolve" /\ wk'[w].pc # "resolve"
              /\ PayloadParses(Row(id)) /\ Unresolvable(Row(id))) =>
                /\ wk'[w].pc = "fail" /\ wk'[w].err = "notfound"
                /\ msgs' = msgs /\ entities' = entities /\ hist' = hist
          /\ (wk[w].pc = "fail" /\ wk[w].err = "notfound" /\ wk'[w].pc = "idle") =>
                /\ \E i \in 1..Len(msgs') :
                      /\ msgs'[i].id = id
                      /\ msgs'[i].status = "failed"
                      /\ msgs'[i].error_message = "notfound"
                /\ hist'[id].run = "raised" /\ hist'[id].fails = 1
                /\ hist'[id].ext = 0 /\ hist'[id].wrote = 0 /\ hist'[id].sent = {}]_vars

(* the agent whose handler owns each kind of entity *)
OwnerOf(kind) ==
    CASE kind = "skill_map" -> "scout"
      [] kind = "content_items" -> "content_creator"
      [] kind = "assessment_results" -> "assessment"
      [] kind = "user_progress" -> "learning"

EntityKinds == {"skill_map", "content_items", "assessment_results", "user_progress"}

(* the workers that take a step of the handling of a message addressed to
   the agent *)
Stepping(agent) ==
    {w \in Workers : /\ wk[w].cur # NoId
                     /\ wk[w].pc \notin {"idle", "claim"}
                     /\ wk'[w] # wk[w]
                     /\ Row(wk[w].cur).to_agent = agent}

(* C32: single writer per entity kind: a step that changes the skill maps
   is a step of a Scout handler, one that changes the content items a step
   of the Content Creator, the assessment results of the Assessment
   handler, the progress records of the Learning handler (the Assessment
   handler leaves them alone and dispatches a GapSignal), and no handler
   of a worker writes an audit record *)
SingleWriter ==
    [][/\ \A kind \in EntityKinds :
             entities'[kind] # entities[kind] => Stepping(OwnerOf(kind)) # {}
       /\ (\E w \in Workers : wk'[w] # wk[w]) => auditLog' = auditLog]_vars

(* an assessment with gaps stored its result and dispatched a GapSignal,
   and the Learning handler of that GapSignal has written the progress
   record *)
SingleWriterWitness ==
    /\ Len(entities.assessment_results) = 1
    /\ \E i \in 1..Len(entities.user_progress) :
          entities.user_progress[i].status = "needs_remediation"
    /\ \E id \in Handled :
          /\ RowsWithId(msgs, id) # {}
          /\ Row(id).to_agent = "assessment"
          /\ \E g \in FollowUpsOf(id, "GapSignal", "learning") :
                /\ Row(g).status = "processing"
                /\ \E w \in Workers : wk[w].cur = g /\ wk[w].pc = "select"

(***************************************************************************)
(* Properties of the master agent (SpecRouter).                            *)
(***************************************************************************)
(* the routing table as the specification gives it *)
Route == [research |-> "scout", create_content |-> "content_creator",
          assess |-> "assessment", learn |-> "learning"]

(* the requests that have a message on the bus *)
Dispatched == {r \in Requests : rq[r].msgId # NoId}

(* the answer of the classifier is not a classification *)
NotAClassification(resp) ==
    \/ resp.kind # "text"
    \/ ~resp.json
    \/ resp.intent \notin Intent
    \/ resp.topic = Null
    \/ resp.confidence \notin {"0", "0.5", "0.9", "1"}

(* C16: for a classified intent other than unknown, once the router is
   past its dispatch there is exactly one message of the request on the
   bus: a pending JobDispatch from master to the agent of the routing
   table, with the intent, topic, user id and raw input of the request and
   the topic id when the topic resolves (absent when it does not); the
   result reports that agent and that message's id *)
RoutingTable ==
    /\ Len(msgs) = Cardinality(Dispatched)
    /\ \A r \in Requests :
         LET q == rq[r] IN
         (q.pc \in {"audit", "returned"} /\ q.intent \in DOMAIN Route) =>
            /\ q.msgId \in Ids(msgs)
            /\ \A r2 \in Requests \ {r} : rq[r2].msgId # q.msgId
            /\ Row(q.msgId).from_agent = "master"
            /\ Row(q.msgId).to_agent = Route[q.intent]
            /\ Row(q.msgId).message_type = "JobDispatch"
            /\ Row(q.msgId).status = "pending"
            /\ \E tid \in {Absent} \cup
                          {t.id : t \in {t \in TopicsTable : q.llm.topic = t.name}} :
                  Row(q.msgId).payload =
                      [EmptyPayload EXCEPT !.intent = q.llm.intent,
                                           !.topic = q.llm.topic,
                                           !.topic_id = tid,
                                           !.user_id = q.userId,
                                           !.raw_input = q.message]
            /\ q.pc = "returned" =>
                  /\ q.result.dispatchedTo = Route[q.intent]
                  /\ q.result.agentMessageId = q.msgId

(* C16 witness: an assess request about a topic the topics table does not
   have has returned: dispatched to assessment, without a topic id *)
RoutingWitness ==
    \E r \in Requests :
        /\ rq[r].pc = "returned"
        /\ rq[r].intent = "assess"
        /\ rq[r].topic = "Quantum"
        /\ rq[r].result.dispatchedTo = "assessment"
        /\ rq[r].msgId \in Ids(msgs)
        /\ Row(rq[r].msgId).payload.topic_id = Absent

(* C17: a request classified as unknown never has a message on the bus and
   does not fail; its result has no target and no message id and carries
   the clarification *)
UnknownIntentNoDispatch ==
    \A r \in Requests :
        LET q == rq[r] IN
        (q.pc # "new" /\ ~NotAClassification(q.llm) /\ q.llm.intent = "unknown") =>
            /\ q.pc # "raised"
            /\ q.msgId = NoId
            /\ \A i \in 1..Len(msgs) : \E r2 \in Requests \ {r} : rq[r2].msgId = msgs[i].id
            /\ q.pc = "returned" =>
                  /\ q.result.dispatchedTo = Null
                  /\ q.result.agentMessageId = NoId
                  /\ q.result.response = Clarification

(* C17 witness: a request classified as unknown has returned the
   clarification, its audit row is written and the bus is empty *)
UnknownIntentWitness ==
    \E r \in Requests :
        /\ rq[r].pc = "returned"
        /\ rq[r].intent = "unknown"
        /\ rq[r].result.response = Clarification
        /\ rq[r].auditOk
        /\ Len(msgs) = 0

(* C18: when the classifier's answer is not a classification the request
   ends with the classifier's error, without a message, an audit row or a
   result, and every message on the bus belongs to a request that was
   classified *)
ClassificationFailureNoDispatch ==
    /\ \A r \in Requests :
         LET q == rq[r] IN
         (q.pc # "new" /\ NotAClassification(q.llm)) =>
            /\ q.pc = "raised"
            /\ q.err \in {"transport", "No text response from Claude intent classifier",
                          "SyntaxError", "ZodError"}
            /\ q.msgId = NoId
            /\ q.audits = 0
            /\ q.result = NoResult
    /\ \A i \in 1..Len(msgs) :
         \E r \in Requests : rq[r].msgId = msgs[i].id /\ ~NotAClassification(rq[r].llm)

(* C18 witness: a request whose answer had an intent outside the
   enumeration has ended with the schema's error while the other request
   has its message on the bus *)
ClassificationFailureWitness ==
    \E r \in Requests :
        /\ rq[r].pc = "raised"
        /\ rq[r].llm.intent = "chat"
        /\ rq[r].err = "ZodError"
        /\ Len(msgs) = 1

(* C19: a request whose dispatch failed has attempted its audit row *)
DispatchFailureStillAudited ==
    \A r \in Requests :
        (rq[r].pc = "raised" /\ rq[r].err \in {"Context Bus dispatch failed"}) =>
            rq[r].audits = 1

(* C20: a request whose audit insert failed after its message was
   dispatched returns its result, with the target and the message id, and
   the message is on the bus as it was dispatched *)
AuditFailureNotEscalated ==
    \A r \in Requests :
        LET q == rq[r] IN
        (q.audits = 1 /\ ~q.auditOk /\ q.msgId # NoId) =>
            /\ q.pc = "returned"
            /\ q.err = Null
            /\ q.result.dispatchedTo = q.target
            /\ q.result.agentMessageId = q.msgId
            /\ q.msgId \in Ids(msgs)
            /\ Row(q.msgId).to_agent = q.target
            /\ Row(q.msgId).status = "pending"
            /\ Row(q.msgId).error_message = Null
            /\ Row(q.msgId).payload.user_id = q.userId

(* C20 witness: the audit insert of a request with a well-formed user id
   failed after its dispatch, and the request has returned *)
AuditFailureWitness ==
    \E r \in Requests :
        /\ rq[r].pc = "returned"
        /\ rq[r].audits = 1 /\ ~rq[r].auditOk
        /\ rq[r].userId = "u1"
        /\ rq[r].msgId \in Ids(msgs)
        /\ Len(auditLog) = 0


(***************************************************************************)
(* Properties of the scorer (SpecScore).                                   *)
(***************************************************************************)
(* the questions of the quiz whose answer, at the same position, is the
   correct one *)
AnsweredRight ==
    {i \in 1..Len(calc.questions) :
        i <= Len(calc.answers) /\ calc.answers[i] = calc.questions[i]}

(* C22: the score of a quiz is the number of questions answered with
   exactly the correct answer over the number of questions, also when fewer
   answers than questions were given, it is 0 for a quiz without
   questions, and it lies between 0 and 1 *)
ScoreIsCorrectOverQuestions ==
    calc.stage # "quiz" =>
        /\ calc.score.den > 0
        /\ 0 <= calc.score.num /\ calc.score.num <= calc.score.den
        /\ IF Len(calc.questions) = 0 THEN calc.score.num = 0
           ELSE calc.score.num * Len(calc.questions) =
                    Cardinality(AnsweredRight) * calc.score.den

(* C22 witness: three questions, two answers, one of them right: the score
   is one third *)
ScoreFewerAnswersWitness ==
    /\ calc.stage = "scored"
    /\ Len(calc.questions) = 3 /\ Len(calc.answers) = 2
    /\ Cardinality(AnsweredRight) = 1
    /\ calc.score.num * 3 = calc.score.den

(* C23: the outcome is PASS for a score of at least 0.8, PARTIAL for a score
   of at least 0.5 and below 0.8, FAIL below 0.5, so 4 of 5 is PASS and 1 of
   2 is PARTIAL; the recommendation is advance for PASS, needs_review for
   PARTIAL and needs_remediation for FAIL *)
OutcomeFollowsScore ==
    LET n == calc.score.num
        d == calc.score.den
    IN  /\ calc.stage \in {"outcome", "recommended"} =>
              /\ calc.outcome \in Outcome
              /\ calc.outcome = "PASS" <=> 10 * n >= 8 * d
              /\ calc.outcome = "PARTIAL" <=> (2 * n >= d /\ 10 * n < 8 * d)
              /\ calc.outcome = "FAIL" <=> 2 * n < d
              /\ (Len(calc.questions) = 5 /\ Cardinality(AnsweredRight) = 4) =>
                      calc.outcome = "PASS"
              /\ (Len(calc.questions) = 2 /\ Cardinality(AnsweredRight) = 1) =>
                      calc.outcome = "PARTIAL"
        /\ calc.stage = "recommended" =>
              /\ calc.outcome = "PASS" => calc.recommendation = "advance"
              /\ calc.outcome = "PARTIAL" => calc.recommendation = "needs_review"
              /\ calc.outcome = "FAIL" => calc.recommendation = "needs_remediation"

(* C23 witness: four of five questions answered right, outcome PASS and
   recommendation advance *)
OutcomeBoundaryWitness ==
    /\ calc.stage = "recommended"
    /\ Len(calc.questions) = 5 /\ Cardinality(AnsweredRight) = 4
    /\ calc.outcome = "PASS" /\ calc.recommendation = "advance"


(***************************************************************************)
(* Properties of the sequencer (SpecSequencer).                            *)
(***************************************************************************)
(* the learner's progress rows for the topic, and the lessons *)
SeqRows ==
    SelectSeq(entities.user_progress,
              LAMBDA r : r.user_id = calc.user /\ r.topic_id = calc.topic)

SeqItems == entities.content_items

HasStatus(status) == \E i \in 1..Len(SeqRows) : SeqRows[i].status = status

(* the status that has priority among the learner's rows *)
TopStatus ==
    IF HasStatus("needs_remediation") THEN "needs_remediation"
    ELSE IF HasStatus("in_progress") THEN "in_progress"
    ELSE IF HasStatus("not_started") THEN "not_started"
    ELSE Absent

(* the beginner lessons of the topic *)
BeginnersOfTopic ==
    {k \in 1..Len(SeqItems) :
        SeqItems[k].topic_id = calc.topic /\ SeqItems[k].depth = "beginner"}

(* C24 as claimed: when the learner has a row that needs remediation, is in
   progress or is not started, a lesson that selectNextContent recommends
   is for a skill whose row has the status of highest priority among them,
   at that row's current_depth: it is a lesson of the topic for that skill
   and depth *)
SequencingPriority ==
    (calc.stage = "selected" /\ TopStatus # Absent /\ calc.out.content # Absent) =>
        \E i \in 1..Len(SeqRows) :
            /\ SeqRows[i].status = TopStatus
            /\ calc.out.skill = SeqRows[i].skill
            /\ calc.out.depth = SeqRows[i].current_depth
            /\ \E k \in 1..Len(SeqItems) :
                  /\ SeqItems[k].id = calc.out.content
                  /\ SeqItems[k].topic_id = calc.topic
                  /\ SeqItems[k].skill = SeqRows[i].skill
                  /\ SeqItems[k].depth = SeqRows[i].current_depth

(* C25: without progress rows the recommendation is an earliest-created
   beginner lesson of the topic when there is one; without any lesson of
   the topic it is the nothing-available result; a recommendation either
   is the nothing-available result or names a lesson that exists and
   belongs to the topic *)
SequencingEmptyStates ==
    calc.stage = "selected" =>
        /\ (SeqRows = <<>> /\ BeginnersOfTopic # {}) =>
              \E k \in BeginnersOfTopic :
                  /\ calc.out = [content |-> SeqItems[k].id, skill |-> SeqItems[k].skill,
                                 depth |-> "beginner"]
                  /\ \A j \in BeginnersOfTopic :
                        SeqItems[k].created_at <= SeqItems[j].created_at
        /\ (\A k \in 1..Len(SeqItems) : SeqItems[k].topic_id # calc.topic) =>
              calc.out = NothingAvailable
        /\ calc.out.content = Absent => calc.out = NothingAvailable
        /\ calc.out.content # Absent =>
              \E k \in 1..Len(SeqItems) :
                  /\ SeqItems[k].id = calc.out.content
                  /\ SeqItems[k].topic_id = calc.topic

(* C25 witness: no progress rows and two beginner lessons of the topic, the
   one inserted second created first: that one is recommended *)
SequencingFallbackWitness ==
    /\ calc.stage = "selected"
    /\ SeqRows = <<>>
    /\ BeginnersOfTopic = {1, 2}
    /\ SeqItems[2].created_at < SeqItems[1].created_at
    /\ calc.out.content = SeqItems[2].id

DepthRank(d) ==
    CASE d = "beginner" -> 1 [] d = "intermediate" -> 2 [] d = "advanced" -> 3

(* C26: every call of getNextDepth takes beginner to intermediate,
   intermediate to advanced and advanced to advanced: the depth never gets
   lower, and from advanced it stays advanced call after call *)
DepthAdvanceMonotonic ==
    [][calc'.calls = calc.calls + 1 =>
          /\ calc.depth = "beginner" => calc'.depth = "intermediate"
          /\ calc.depth = "intermediate" => calc'.depth = "advanced"
          /\ calc.depth = "advanced" => calc'.depth = "advanced"
          /\ DepthRank(calc'.depth) >= DepthRank(calc.depth)]_vars

(* C26 witness: getNextDepth was called MaxAdvance times starting from a
   recommendation at advanced, and the depth is advanced *)
DepthCeilingWitness ==
    /\ calc.stage = "selected"
    /\ calc.calls = MaxAdvance
    /\ calc.out.depth = "advanced"
    /\ calc.depth = "advanced"


(***************************************************************************)
(* Properties of Scout's cache (SpecScout).                                *)
(***************************************************************************)
(* the skill maps of the topic generated within CACHE_MAX_AGE of now *)
FreshMaps(topicId) ==
    {i \in 1..Len(entities.skill_map) :
        /\ entities.skill_map[i].topic_id = topicId
        /\ entities.skill_map[i].generated_at >= now - CACHE_MAX_AGE}

(* the handler on w goes on to research *)
CacheMiss(w) == wk'[w].pc = "work" /\ ~wk'[w].cached

(* the handler on w skips research and goes on with the most recent fresh
   skill map of the topic *)
CacheHit(w, fresh) ==
    /\ wk'[w].pc = "dispatch" /\ wk'[w].cached
    /\ \E i \in fresh :
          /\ wk'[w].ref = entities.skill_map[i].id
          /\ \A j \in fresh : entities.skill_map[j].generated_at
                                  <= entities.skill_map[i].generated_at

(* a Scout handler that returned: the message is done and has one
   SkillMapReady to master; flagged cached it names a skill map of the
   topic and research was not called nor a skill map inserted, not flagged
   it names the skill map inserted after the one call of research *)
ScoutReturned ==
    \A id \in Ids(msgs) :
        (Row(id).to_agent = "scout" /\ hist[id].run = "returned") =>
            /\ Row(id).status = "done"
            /\ Cardinality(hist[id].sent) = 1
            /\ \A f \in hist[id].sent :
                  LET n == IF Row(f).payload.cached = "true" THEN 0 ELSE 1 IN
                  /\ Row(f).message_type = "SkillMapReady" /\ Row(f).to_agent = "master"
                  /\ hist[id].ext = n /\ hist[id].wrote = n
                  /\ \E i \in 1..Len(entities.skill_map) :
                        /\ entities.skill_map[i].id = Row(f).payload.ref_id
                        /\ entities.skill_map[i].topic_id = TopicIdOf(Row(id))
                        /\ n = 1 => entities.skill_map[i].generated_at >= Row(id).created_at

(* C27 as claimed: whenever the topic has a skill map generated within the
   window, the handler skips research and dispatches that skill map
   flagged cached; when it has none, research is called and the result is
   not flagged *)
CacheReuseWheneverFresh ==
    [][/\ \A w \in Workers :
            (wk[w].pc = "cache" /\ wk'[w].pc # "cache") =>
                LET fresh == FreshMaps(TopicIdOf(Row(wk[w].cur)))
                IN  IF fresh # {} THEN CacheHit(w, fresh) ELSE CacheMiss(w)
       /\ ScoutReturned']_vars

(* C27 as amended: the handler skips research only with the most recent
   skill map of the topic generated within the window, which the lookup
   returned; without such a skill map, or when the lookup fails, research
   is called and the result is not flagged cached *)
CacheReuse ==
    [][/\ \A w \in Workers :
            (wk[w].pc = "cache" /\ wk'[w].pc # "cache") =>
                LET fresh == FreshMaps(TopicIdOf(Row(wk[w].cur)))
                IN  CacheMiss(w) \/ (fresh # {} /\ CacheHit(w, fresh))
       /\ ScoutReturned']_vars

(* C27 witness: a job dispatched 30 minutes or more after the skill map was
   generated is done with a SkillMapReady flagged cached, and research was
   not called for it *)
CacheReuseWitness ==
    \E id \in Ids(msgs) :
        /\ Row(id).to_agent = "scout" /\ Row(id).status = "done"
        /\ Row(id).created_at >= 1
        /\ hist[id].ext = 0
        /\ \E f \in hist[id].sent :
              /\ Row(f).payload.cached = "true"
              /\ Row(f).payload.ref_id = entities.skill_map[Len(entities.skill_map)].id


(***************************************************************************)
(* Properties of the research pipeline (SpecResearch).                     *)
(***************************************************************************)
(* the source has answered with an unavailable or an error marker *)
Unusable(src) ==
    /\ calc.found[src].state = "returned"
    /\ calc.found[src].value \in {UnavailableMarker[src], ErrorMarker[src]}

(* the source has answered with data *)
Usable(src) == calc.found[src] = Returned(SourceData[src])

ResearchEnded == calc.stage \in {"returned", "raised"}

(* C28 as claimed: when both sources answered with an unavailable or error
   marker, researchTopic raises an error that names both sources and does
   not call the synthesis; when one source answered with such a marker and
   the other with data, and the synthesis answers, researchTopic returns
   the skill map *)
ResearchFailsOnlyWithoutSources ==
    /\ (calc.stage # "searching" /\ \A src \in Sources : Unusable(src)) =>
            /\ calc.stage = "raised"
            /\ calc.out = Raised("Research failed: both sources returned errors")
            /\ calc.synthesized = 0
    /\ (ResearchEnded /\ calc.llm = "valid"
            /\ \E a, b \in Sources : a # b /\ Unusable(a) /\ Usable(b)) =>
            calc.out = Returned("skillmap")

(* C30 as claimed: a search that has settled has returned, never raised:
   data when the source answered with content, a bracketed marker
   otherwise; and research with one source failing, the other answering
   with data and the synthesis answering returns the skill map *)
SearchNeverRaises ==
    /\ \A src \in Sources :
          calc.found[src] # Pending =>
              /\ calc.found[src].state = "returned"
              /\ calc.env[src] # "ok" =>
                    calc.found[src].value \in
                        {UnavailableMarker[src], ErrorMarker[src], EmptyMarker[src],
                         "[Tavily timeout]", "[Perplexity timeout]",
                         "[Tavily error: ECONNREFUSED]", "[Perplexity error: ECONNREFUSED]"}
    /\ (ResearchEnded /\ calc.llm = "valid"
            /\ \E a, b \in Sources : a # b /\ calc.env[a] # "ok" /\ calc.env[b] = "ok") =>
            calc.out = Returned("skillmap")

(***************************************************************************)
(* Properties of POST /api/chat (SpecChat).                                *)
(***************************************************************************)
(* the route has answered a request that the router dispatched to scout *)
AnsweredScoutRequest ==
    /\ chat.pc = "responded"
    /\ rq[1].pc = "returned"
    /\ rq[1].result.dispatchedTo = "scout"
    /\ rq[1].result.agentMessageId # NoId

(* C33 as claimed: when the route answers a request that the router
   dispatched to scout, the Scout handler has been run on the message
   dispatched in this request and that message is done or failed, whatever
   other rows the table held *)
InProcessInvocation ==
    AnsweredScoutRequest =>
        LET id == rq[1].result.agentMessageId IN
        /\ hist[id].bodies = 1
        /\ Row(id).status \in {"done", "failed"}

(* C35 as claimed: the agentResult of the answer is the payload of the
   SkillMapReady dispatched by the handling of the message dispatched in
   this request, never the reply to an earlier request *)
ReplyCorrelated ==
    (chat.pc = "responded" /\ chat.replyId # NoId) =>
        /\ chat.agentResult = Row(chat.replyId).payload
        /\ chat.replyId \in hist[rq[1].result.agentMessageId].sent

(***************************************************************************)
(* Properties of the Learning handler's progress records (Spec).           *)
(***************************************************************************)
SameSkill(a, b) ==
    a.user_id = b.user_id /\ a.topic_id = b.topic_id /\ a.skill = b.skill

(* C34 as claimed: the current_depth stored for a (user, topic, skill)
   never decreases, whatever messages the Learning handler handles *)
StoredDepthNeverDecreases ==
    [][\A i \in 1..Len(entities.user_progress) :
         \A j \in 1..Len(entities'.user_progress) :
            SameSkill(entities.user_progress[i], entities'.user_progress[j]) =>
               DepthRank(entities'.user_progress[j].current_depth)
                   >= DepthRank(entities.user_progress[i].current_depth)]_vars

(* C34 amended: the stored current_depth is what the last upsert wrote,
   whatever the row held before: handling a GapSignal sets the depth of
   the gap's skill to beginner when the recommendation is
   needs_remediation and to intermediate otherwise (status
   needs_remediation), handling a JobDispatch sets the depth of the
   recommended skill to the depth of the recommended content (status
   in_progress), and the rows of the other skills are left as they were *)
StoredDepthIsLastWrite ==
    [][\A w \in Workers :
          (wk[w].pc = "progress" /\ wk'[w].pc # "progress" /\ entities' # entities) =>
             LET m == Row(wk[w].cur)
                 new == entities'.user_progress[1]
             IN  /\ new.user_id = m.payload.user_id
                 /\ new.topic_id = TopicIdOf(m)
                 /\ IF IsGapSignal(m)
                    THEN /\ new.skill = "g1"
                         /\ new.status = "needs_remediation"
                         /\ new.current_depth =
                               IF m.payload.recommendation = "needs_remediation"
                               THEN "beginner" ELSE "intermediate"
                    ELSE /\ new.skill = wk[w].skill
                         /\ new.status = "in_progress"
                         /\ new.current_depth = wk[w].depth
                 /\ Tail(entities'.user_progress) =
                       Without(entities.user_progress, new.user_id, new.topic_id,
                               new.skill)]_vars

(* the GapSignal of a partial assessment has been handled and the skill
   was at intermediate; the handler of the GapSignal of a failed
   assessment has put the same skill back to beginner *)
StoredDepthLoweredWitness ==
    /\ Len(msgs) = 3
    /\ msgs[1].message_type = "GapSignal" /\ msgs[1].status = "done"
    /\ msgs[1].payload.recommendation = "needs_review"
    /\ msgs[2].message_type = "GapSignal" /\ msgs[2].status = "processing"
    /\ msgs[2].payload.recommendation = "needs_remediation"
    /\ Len(entities.user_progress) = 1
    /\ entities.user_progress[1].skill = "g1"
    /\ entities.user_progress[1].current_depth = "beginner"

(***************************************************************************)
(* Properties of the follow-up messages (Spec).                            *)
(***************************************************************************)
(* C36: every follow-up a handler has dispatched (SkillMapReady,
   ContentReady, AssessmentResult, GapSignal, ProgressUpdate) carries the
   user_id of the message that was being handled, which is a UUID; a
   chain of follow-ups therefore carries the user_id of its first
   message hop by hop *)
FollowUpsCarryUser ==
    \A id \in Handled : \A f \in hist[id].sent :
        /\ IsUuid(Row(id).payload.user_id)
        /\ Row(f).payload.user_id = Row(id).payload.user_id

(* the assessment job of learner u2 has dispatched its AssessmentResult
   and its GapSignal, both for u2, the other jobs being u1's *)
FollowUpsCarryUserWitness ==
    /\ Len(msgs) = 3
    /\ \E id \in Handled :
          /\ Row(id).to_agent = "assessment" /\ Row(id).payload.user_id = "u2"
          /\ FollowUpsOf(id, "AssessmentResult", "master") # {}
          /\ FollowUpsOf(id, "GapSignal", "learning") # {}
          /\ \A f \in hist[id].sent : Row(f).payload.user_id = "u2"

(***************************************************************************)
(* Progress of the workers (SpecLive).                                     *)
(***************************************************************************)
Claimed(id) ==
    \E i \in 1..Len(msgs) : msgs[i].id = id /\ msgs[i].status = "processing"

Ended(id) ==
    \E i \in 1..Len(msgs) : msgs[i].id = id /\ msgs[i].status \in {"done", "failed"}

(* C37: when no worker dies and the store's writes succeed (it is enough
   that failMessage never throws), every message a worker has claimed
   eventually is done or failed: no message stays processing forever *)
ClaimedEventuallyEnds ==
    \A id \in LiveIds :
        [](hist[id].run # "raisedStore") => (Claimed(id) ~> Ended(id))

(* an assessment job, its AssessmentResult, its GapSignal and the
   ProgressUpdate of the GapSignal: both claimed messages are done *)
ClaimedEndsWitness ==
    /\ Len(msgs) = 4
    /\ msgs[1].to_agent = "assessment" /\ msgs[1].status = "done"
    /\ msgs[3].message_type = "GapSignal" /\ msgs[3].status = "done"
    /\ msgs[4].message_type = "ProgressUpdate"

(***************************************************************************)
(* Properties of failed handlings (Spec).                                  *)
(***************************************************************************)
FailedIds == {id \in Handled : RowsWithId(msgs, id) # {} /\ Row(id).status = "failed"}

(* C38 as claimed: when the handling of a message has left it failed, no
   follow-up of that handling is on the bus *)
FailureLeavesNoFollowUp ==
    \A id \in FailedIds : hist[id].sent = {}

(* C38 amended: a failed message has follow-ups on the bus only when the
   failure came after a dispatch, that is when a later write to the bus
   (the second dispatch or completeMessage) threw; a handling that failed
   in validation, in resolving its entity, in its capability or in
   persisting has dispatched nothing; and a failed assessment request
   never has a GapSignal without its AssessmentResult *)
FailureAfterDispatchOnly ==
    \A id \in FailedIds :
        /\ hist[id].sent # {} => Row(id).error_message = "store"
        /\ Row(id).error_message \in {"validation", "notfound", "capability", "persist"}
              => hist[id].sent = {}
        /\ FollowUpsOf(id, "GapSignal", "learning") # {}
              => FollowUpsOf(id, "AssessmentResult", "master") # {}

(* an assessment request is failed because the dispatch of its GapSignal
   threw, and its AssessmentResult is on the bus *)
FailureAfterDispatchWitness ==
    \E id \in FailedIds :
        /\ Row(id).to_agent = "assessment"
        /\ Row(id).error_message = "store"
        /\ FollowUpsOf(id, "AssessmentResult", "master") # {}
        /\ FollowUpsOf(id, "GapSignal", "learning") = {}
        /\ ScoreResults[entities.assessment_results[1].outcome].gaps # "[]"

(***************************************************************************)
(* Properties of concurrent research (Spec).                               *)
(***************************************************************************)
(* the scout messages of the topic whose handler has called the research
   pipeline and has not ended *)
Researching(topicId) ==
    {id \in Handled : /\ RowsWithId(msgs, id) # {}
                      /\ Row(id).to_agent = "scout"
                      /\ PayloadParses(Row(id))
                      /\ TopicIdOf(Row(id)) = topicId
                      /\ hist[id].ext > 0
                      /\ \E w \in InBody(id) : wk[w].pc \in {"persist", "dispatch"}}

(* C39 as claimed: of the JobDispatch messages for one topic that Scout
   workers handle concurrently while no skill map of the topic is stored,
   at most one calls the external research pipeline, and at most one new
   skill map is inserted for the topic within the freshness window *)
ResearchNotDuplicated ==
    \A r \in TopicsTable :
        /\ FreshMaps(r.id) = {} => Cardinality(Researching(r.id)) <= 1
        /\ Cardinality(FreshMaps(r.id)) <= 1

====
